---- MODULE Spec2Model ----
(***************************************************************************)
(* Flag-qubit syndrome extraction for the five-qubit code on a Pauli-frame *)
(* engine: src/flag_qec_stabilizer/qec_flag_stabilizer_base.py and         *)
(* src/flag_qec_stabilizer/five_qubit_code_flag_protocol_stabilizer.py.    *)
(*                                                                         *)
(* Random draws.  Every np.random.uniform() of the source is an explicit   *)
(* input of the operator that consumes it.  A draw u that decides whether  *)
(* a fault fires (u < p_err) ranges over UniformDraws: 0 stands for        *)
(* u = 0.0, which is below p_err exactly when p_err > 0, and 1 stands for  *)
(* a draw above every scaled rate of the sweep (rates are below 1).  The   *)
(* second draw of a depolarizing fault is given as the index 0..14 of the  *)
(* interval [dec/15, (dec+1)/15) it falls in.  Rates are kept by sign:     *)
(* 0 is p = 0, 1 is a positive rate below 1 and -1 is the literal -1 the   *)
(* resynchronization passes.                                               *)
(*                                                                         *)
(* A behaviour follows one process: a run of p_phys_sweep_simulation, the  *)
(* rounds and sends of one rank of p_phys_sweep_simulation_mpi, with the   *)
(* messages the other ranks sent as inputs of the receives of rank 0, or a *)
(* caller that invokes the methods directly.                               *)
(***************************************************************************)
EXTENDS Integers, Sequences, FiniteSets, TLC

\* ------------------------------------------------------------------------
\* Bounds of the model
\* ------------------------------------------------------------------------
\* faults per run: a gate, preparation or measurement fault that fired, or a
\* call of one_stochastic_pauli_error_data_qubits that injected an error
MaxFaults == 1
\* data qubits one call of one_stochastic_pauli_error_data_qubits may hit
MaxWeight == 2
\* length of the noise sweep p_phys
NumRates == 2
\* samples_per_point
MaxSamples == 2
\* number of MPI processes (num_cores)
MaxCores == 3
\* method calls made by a caller that drives the object directly
MaxCalls == 3
\* calls made by a caller that drives the engine alone
MaxEngineCalls == 2

\* ------------------------------------------------------------------------
\* Qubit index space (five_qubit_code_flag_protocol.__init__ defaults)
\* ------------------------------------------------------------------------
num_data_qubits == 5
num_anc_qubits == 1
num_flag_qubits == 1
num_all_qubits == num_data_qubits + num_anc_qubits + num_flag_qubits

data_qubits == [n \in 0..(num_data_qubits - 1) |-> n]
anc_qubits == [n \in 0..(num_anc_qubits - 1) |-> num_data_qubits + n]
flag_qubits == [n \in 0..(num_flag_qubits - 1) |-> num_data_qubits + num_anc_qubits + n]

AccIdx == 0..(2 * num_all_qubits - 1)

\* np.array([0]*(2*num_all_qubits))
clear_pauli_accumulator == [n \in AccIdx |-> 0]

\* Mutation of logical_xor: the bits are ORed
logical_or(a, b) == [n \in DOMAIN a |-> IF (a[n] # 0) \/ (b[n] # 0) THEN 1 ELSE 0]

\* np.logical_xor(a, b).astype(int)
logical_xor(a, b) == [n \in DOMAIN a |-> IF (a[n] # 0) # (b[n] # 0) THEN 1 ELSE 0]

\* np.logical_xor(acc, error_string).astype(int) for an error_string that is
\* all-zero except for ones at the positions in the sequence at
RECURSIVE XorAt(_, _)
XorAt(acc, at) ==
    IF at = <<>> THEN acc
    ELSE XorAt([acc EXCEPT ![Head(at)] = 1 - @], Tail(at))

\* ------------------------------------------------------------------------
\* Error model and scale factors (in fifteenths)
\* ------------------------------------------------------------------------
ErrorModels == {"ONE_STOCHASTIC_PAULI_ERROR", "CHAO_CKT_LVL_NOISE_WITHOUT_IDLING"}

error_scale_factor_two_qubit_gate(model) ==
    IF model = "CHAO_CKT_LVL_NOISE_WITHOUT_IDLING" THEN 15 ELSE 0

\* "Chao uses 0 error on hadamard"
error_scale_factor_single_qubit_gate(model) == 0

error_scale_factor_prep(model) ==
    IF model = "CHAO_CKT_LVL_NOISE_WITHOUT_IDLING" THEN 4 ELSE 0

error_scale_factor_meas(model) ==
    IF model = "CHAO_CKT_LVL_NOISE_WITHOUT_IDLING" THEN 4 ELSE 0

UniformDraws == {0, 1}

\* Mutation of Fires: the comparison is u <= p_err
FiresInclusive(u, p_err) == u = 0 /\ p_err >= 0

\* np.random.uniform() < p_err
Fires(u, p_err) == u = 0 /\ p_err > 0

\* ------------------------------------------------------------------------
\* Fault injection
\* ------------------------------------------------------------------------
single_qubit_X_error(acc, qubit_idx, u, p_err) ==
    IF Fires(u, p_err)
    THEN XorAt(acc, <<qubit_idx>>)
    ELSE acc

single_qubit_Z_error(acc, qubit_idx, u, p_err) ==
    IF Fires(u, p_err)
    THEN XorAt(acc, <<qubit_idx + num_all_qubits>>)
    ELSE acc

\* the positions, in the order they are set, of Pauli index 0 (I), 1 (X), 2 (Y), 3 (Z) on a qubit
PauliSupport(pauli_idx, qubit_idx) ==
    IF pauli_idx = 1 THEN <<qubit_idx>>
    ELSE IF pauli_idx = 2 THEN <<qubit_idx, qubit_idx + num_all_qubits>>
    ELSE IF pauli_idx = 3 THEN <<qubit_idx + num_all_qubits>>
    ELSE <<>>

single_qubit_pauli_error(acc, pauli_idx, qubit_idx) ==
    XorAt(acc, PauliSupport(pauli_idx, qubit_idx))

\* Mutation of two_qubit_pauli_error: the second Pauli lands on the qubit
\* after qubit_idx2
two_qubit_pauli_error_misplaced(acc, pauli_idx1, pauli_idx2, qubit_idx1, qubit_idx2) ==
    XorAt(XorAt(acc, PauliSupport(pauli_idx1, qubit_idx1)),
          PauliSupport(pauli_idx2, (qubit_idx2 + 1) % num_all_qubits))

two_qubit_pauli_error(acc, pauli_idx1, pauli_idx2, qubit_idx1, qubit_idx2) ==
    XorAt(XorAt(acc, PauliSupport(pauli_idx1, qubit_idx1)),
          PauliSupport(pauli_idx2, qubit_idx2))

\* Mutation of two_qubit_gate_depol_error: the pairs are numbered from the
\* identity
two_qubit_gate_depol_error_from_identity(acc, qubit_idx1, qubit_idx2, u, dec, p_err) ==
    IF Fires(u, p_err)
    THEN two_qubit_pauli_error(acc, dec \div 4, dec % 4, qubit_idx1, qubit_idx2)
    ELSE acc

\* the ladder of 15 intervals: interval dec selects the pair number dec + 1
\* in the order IX, IY, IZ, XI, XX, ..., ZZ
two_qubit_gate_depol_error(acc, qubit_idx1, qubit_idx2, u, dec, p_err) ==
    IF Fires(u, p_err)
    THEN two_qubit_pauli_error(acc, (dec + 1) \div 4, (dec + 1) % 4, qubit_idx1, qubit_idx2)
    ELSE acc

\* single_qubit_depol_error: the second draw is given as the index 0..2 of
\* the third it falls in, which selects X, Y or Z
single_qubit_depol_error(acc, qubit_idx, u, dec, p_err) ==
    IF Fires(u, p_err)
    THEN single_qubit_pauli_error(acc, dec + 1, qubit_idx)
    ELSE acc

\* an error_spec object, or None
error_spec(inject_error, error_loc, qubit_idx1, qubit_idx2, pauli_idx1, pauli_idx2) ==
    [is_none |-> FALSE, inject_error |-> inject_error, error_loc |-> error_loc,
     qubit_idx1 |-> qubit_idx1, qubit_idx2 |-> qubit_idx2,
     pauli_idx1 |-> pauli_idx1, pauli_idx2 |-> pauli_idx2]

NoTestConfig ==
    [is_none |-> TRUE, inject_error |-> FALSE, error_loc |-> -1,
     qubit_idx1 |-> -1, qubit_idx2 |-> -1, pauli_idx1 |-> 0, pauli_idx2 |-> 0]

\* two_qubit_gate_error: the directed pair if test_config names this location,
\* nothing if it names another one, the depolarizing fault if it is None
two_qubit_gate_error(acc, test_config, error_loc, depol_err_qubit_idx1, depol_err_qubit_idx2, u, dec, p_err) ==
    IF ~test_config.is_none
    THEN IF test_config.inject_error /\ test_config.error_loc = error_loc
         THEN two_qubit_pauli_error(acc, test_config.pauli_idx1, test_config.pauli_idx2,
                                    test_config.qubit_idx1, test_config.qubit_idx2)
         ELSE acc
    ELSE two_qubit_gate_depol_error(acc, depol_err_qubit_idx1, depol_err_qubit_idx2,
                                    u, dec, p_err)

\* one_stochastic_pauli_error_data_qubits: pat[n] is 0 when the first draw of
\* data qubit n does not fire, else the Pauli 1..3 picked by its second draw
RECURSIVE InjectPattern(_, _, _)
InjectPattern(acc, pat, n) ==
    IF n = num_data_qubits THEN acc
    ELSE InjectPattern(single_qubit_pauli_error(acc, pat[n], data_qubits[n]), pat, n + 1)

one_stochastic_pauli_error_data_qubits(acc, pat) == InjectPattern(acc, pat, 0)

\* ------------------------------------------------------------------------
\* Preparation, reset, gates, measurement
\* ------------------------------------------------------------------------
ClearQubit(acc, qubit_idx) ==
    [acc EXCEPT ![qubit_idx] = 0, ![qubit_idx + num_all_qubits] = 0]

\* Mutation of prepare_Z_basis: only the Z bit is cleared
prepare_Z_basis_keeping_X(acc, qubit_idx, u, p_err, model) ==
    single_qubit_X_error([acc EXCEPT ![qubit_idx + num_all_qubits] = 0], qubit_idx, u,
                         error_scale_factor_prep(model) * p_err)

prepare_Z_basis(acc, qubit_idx, u, p_err, model) ==
    single_qubit_X_error(ClearQubit(acc, qubit_idx), qubit_idx, u,
                         error_scale_factor_prep(model) * p_err)

\* Mutation of prepare_X_basis: the previous bits are not cleared
prepare_X_basis_on_top(acc, qubit_idx, u, p_err, model) ==
    single_qubit_Z_error(acc, qubit_idx, u, error_scale_factor_prep(model) * p_err)

prepare_X_basis(acc, qubit_idx, u, p_err, model) ==
    single_qubit_Z_error(ClearQubit(acc, qubit_idx), qubit_idx, u,
                         error_scale_factor_prep(model) * p_err)

\* Mutation of reset_ancilla: the last data qubit is cleared with the ancilla
reset_ancilla_with_data(acc, u, p_err, model) ==
    single_qubit_X_error(ClearQubit(ClearQubit(acc, num_data_qubits - 1), num_data_qubits),
                         num_data_qubits, u, error_scale_factor_prep(model) * p_err)

reset_ancilla(acc, u, p_err, model) ==
    single_qubit_X_error(ClearQubit(acc, num_data_qubits), num_data_qubits, u,
                         error_scale_factor_prep(model) * p_err)

reset_flag(acc, u, p_err, model) ==
    single_qubit_Z_error(ClearQubit(acc, num_data_qubits + num_anc_qubits),
                         num_data_qubits + num_anc_qubits, u,
                         error_scale_factor_prep(model) * p_err)

\* Mutation of h: the Z bit is copied to the X bit and kept
h_copying(acc, qubit_idx, u, dec, p_err, test_config, error_loc, model) ==
    single_qubit_depol_error(
        [acc EXCEPT ![qubit_idx] = acc[qubit_idx + num_all_qubits]],
        qubit_idx, u, dec, error_scale_factor_single_qubit_gate(model) * p_err)

\* h: the two bits of the qubit are exchanged; test_config and error_loc are
\* not used
h(acc, qubit_idx, u, dec, p_err, test_config, error_loc, model) ==
    single_qubit_depol_error(
        [acc EXCEPT ![qubit_idx] = acc[qubit_idx + num_all_qubits],
                    ![qubit_idx + num_all_qubits] = acc[qubit_idx]],
        qubit_idx, u, dec, error_scale_factor_single_qubit_gate(model) * p_err)

\* Mutation of cnot: the X of the control does not reach the target
cnot_one_way(acc, control_idx, target_idx, u, dec, p_err, test_config, error_loc, model) ==
    LET error_string2 == IF acc[target_idx + num_all_qubits] = 1
                         THEN <<control_idx + num_all_qubits>> ELSE <<>>
    IN  two_qubit_gate_error(XorAt(acc, error_string2),
                             NoTestConfig, error_loc, control_idx, target_idx, u, dec,
                             error_scale_factor_two_qubit_gate(model) * p_err)

\* Mutation of xnot: the Z of the first qubit does not reach the second
xnot_one_way(acc, oplus_idx1, oplus_idx2, u, dec, p_err, test_config, error_loc, model) ==
    LET error_string2 == IF acc[oplus_idx2 + num_all_qubits] = 1 THEN <<oplus_idx1>> ELSE <<>>
    IN  two_qubit_gate_error(XorAt(acc, error_string2),
                             NoTestConfig, error_loc, oplus_idx1, oplus_idx2, u, dec,
                             error_scale_factor_two_qubit_gate(model) * p_err)

\* cnot, xnot, ynot and cz receive test_config and hand None to
\* two_qubit_gate_error ("Not using test_config functionality for now")
cnot(acc, control_idx, target_idx, u, dec, p_err, test_config, error_loc, model) ==
    LET error_string1 == IF acc[control_idx] = 1 THEN <<target_idx>> ELSE <<>>
        error_string2 == IF acc[target_idx + num_all_qubits] = 1
                         THEN <<control_idx + num_all_qubits>> ELSE <<>>
    IN  two_qubit_gate_error(XorAt(XorAt(acc, error_string1), error_string2),
                             NoTestConfig, error_loc, control_idx, target_idx, u, dec,
                             error_scale_factor_two_qubit_gate(model) * p_err)

xnot(acc, oplus_idx1, oplus_idx2, u, dec, p_err, test_config, error_loc, model) ==
    LET error_string1 == IF acc[oplus_idx1 + num_all_qubits] = 1 THEN <<oplus_idx2>> ELSE <<>>
        error_string2 == IF acc[oplus_idx2 + num_all_qubits] = 1 THEN <<oplus_idx1>> ELSE <<>>
    IN  two_qubit_gate_error(XorAt(XorAt(acc, error_string1), error_string2),
                             NoTestConfig, error_loc, oplus_idx1, oplus_idx2, u, dec,
                             error_scale_factor_two_qubit_gate(model) * p_err)

ynot(acc, oplus_idx, y_idx, u, dec, p_err, test_config, error_loc, model) ==
    LET error_string1 == IF acc[oplus_idx + num_all_qubits] = 1
                         THEN <<y_idx, y_idx + num_all_qubits>> ELSE <<>>
        error_string2 == IF acc[y_idx] = 1 THEN <<oplus_idx>> ELSE <<>>
        error_string3 == IF acc[y_idx + num_all_qubits] = 1 THEN <<oplus_idx>> ELSE <<>>
    IN  two_qubit_gate_error(
            XorAt(XorAt(XorAt(acc, error_string1), error_string2), error_string3),
            NoTestConfig, error_loc, oplus_idx, y_idx, u, dec,
            error_scale_factor_two_qubit_gate(model) * p_err)

\* Mutation of cz: only the X of the first qubit propagates
cz_one_way(acc, qubit_idx1, qubit_idx2, u, dec, p_err, test_config, error_loc, model) ==
    LET error_string1 == IF acc[qubit_idx1] = 1 THEN <<qubit_idx2 + num_all_qubits>> ELSE <<>>
    IN  two_qubit_gate_error(XorAt(acc, error_string1),
                             NoTestConfig, error_loc, qubit_idx1, qubit_idx2, u, dec,
                             error_scale_factor_two_qubit_gate(model) * p_err)

cz(acc, qubit_idx1, qubit_idx2, u, dec, p_err, test_config, error_loc, model) ==
    LET error_string1 == IF acc[qubit_idx1] = 1 THEN <<qubit_idx2 + num_all_qubits>> ELSE <<>>
        error_string2 == IF acc[qubit_idx2] = 1 THEN <<qubit_idx1 + num_all_qubits>> ELSE <<>>
    IN  two_qubit_gate_error(XorAt(XorAt(acc, error_string1), error_string2),
                             NoTestConfig, error_loc, qubit_idx1, qubit_idx2, u, dec,
                             error_scale_factor_two_qubit_gate(model) * p_err)

\* Mutation of measure_Z_basis: the outcome is inverted
measure_Z_basis_inverted(acc, qubit_idx, u, p_err, model) ==
    IF acc[qubit_idx] = 1 THEN 0 ELSE 1

measure_Z_basis(acc, qubit_idx, u, p_err, model) ==
    LET meas_outcome == IF acc[qubit_idx] = 1 THEN 1 ELSE 0
    IN  IF Fires(u, error_scale_factor_meas(model) * p_err)
        THEN 1 - meas_outcome ELSE meas_outcome

\* Mutation of measure_X_basis: the X bit is read
measure_X_basis_of_X_bit(acc, qubit_idx, u, p_err, model) ==
    LET meas_outcome == IF acc[qubit_idx] = 1 THEN 1 ELSE 0
    IN  IF Fires(u, error_scale_factor_meas(model) * p_err)
        THEN 1 - meas_outcome ELSE meas_outcome

measure_X_basis(acc, qubit_idx, u, p_err, model) ==
    LET meas_outcome == IF acc[qubit_idx + num_all_qubits] = 1 THEN 1 ELSE 0
    IN  IF Fires(u, error_scale_factor_meas(model) * p_err)
        THEN 1 - meas_outcome ELSE meas_outcome

\* ------------------------------------------------------------------------
\* Python values held by the protocol object's fields
\* ------------------------------------------------------------------------
\* None, a 2-d array (its rows), a 1-d array (its entries), a str, an int
PyNone == [kind |-> "None", rows |-> <<>>, vals |-> <<>>, str |-> "", num |-> 0]
PyArray2(rows) == [kind |-> "ndarray2", rows |-> rows, vals |-> <<>>, str |-> "", num |-> 0]
PyArray1(vals) == [kind |-> "ndarray1", rows |-> <<>>, vals |-> vals, str |-> "", num |-> 0]
PyStr(s) == [kind |-> "str", rows |-> <<>>, vals |-> <<>>, str |-> s, num |-> 0]
PyInt(n) == [kind |-> "int", rows |-> <<>>, vals |-> <<>>, str |-> "", num |-> n]

\* the row np.array([None, None]) used to pad the 1st-subround record
NoneRow == <<-1, -1>>

EntryStr(e) == IF e = 0 THEN "0" ELSE IF e = 1 THEN "1" ELSE "None"

RECURSIVE JoinEntries(_)
JoinEntries(row) ==
    IF Len(row) = 0 THEN ""
    ELSE IF Len(row) = 1 THEN EntryStr(row[1])
    ELSE EntryStr(row[1]) \o " " \o JoinEntries(Tail(row))

\* np.array2string of a 1-d array
array2string_1d(row) == "[" \o JoinEntries(row) \o "]"

RECURSIVE JoinRows(_)
JoinRows(rows) ==
    IF Len(rows) = 0 THEN ""
    ELSE IF Len(rows) = 1 THEN array2string_1d(rows[1])
    ELSE array2string_1d(rows[1]) \o " " \o JoinRows(Tail(rows))

\* np.array2string of a 2-d array followed by .replace('\n', ''): the rows,
\* printed one per line with one leading blank, end up separated by a blank
array2string_2d(rows) == "[" \o JoinRows(rows) \o "]"

\* ------------------------------------------------------------------------
\* Lookup tables and logical operators
\* ------------------------------------------------------------------------
five_qubit_code_no_flag_LUT ==
    ("[0 0 0 1]" :> <<1,0,0,0,0,0,0,0,0,0>>) @@
    ("[1 0 0 0]" :> <<0,1,0,0,0,0,0,0,0,0>>) @@
    ("[1 1 0 0]" :> <<0,0,1,0,0,0,0,0,0,0>>) @@
    ("[0 1 1 0]" :> <<0,0,0,1,0,0,0,0,0,0>>) @@
    ("[0 0 1 1]" :> <<0,0,0,0,1,0,0,0,0,0>>) @@
    ("[1 0 1 0]" :> <<0,0,0,0,0,1,0,0,0,0>>) @@
    ("[0 1 0 1]" :> <<0,0,0,0,0,0,1,0,0,0>>) @@
    ("[0 0 1 0]" :> <<0,0,0,0,0,0,0,1,0,0>>) @@
    ("[1 0 0 1]" :> <<0,0,0,0,0,0,0,0,1,0>>) @@
    ("[0 1 0 0]" :> <<0,0,0,0,0,0,0,0,0,1>>) @@
    ("[1 0 1 1]" :> <<1,0,0,0,0,1,0,0,0,0>>) @@
    ("[1 1 0 1]" :> <<0,1,0,0,0,0,1,0,0,0>>) @@
    ("[1 1 1 0]" :> <<0,0,1,0,0,0,0,1,0,0>>) @@
    ("[1 1 1 1]" :> <<0,0,0,1,0,0,0,0,1,0>>) @@
    ("[0 1 1 1]" :> <<0,0,0,0,1,0,0,0,0,1>>)

five_qubit_code_flag_min_wt_LUT ==
    ("[[0 1] [None None] [None None] [None None]]" :>
        (("[0 1 0 0]" :> <<0,0,0,1,0,0,0,1,0,0>>) @@
         ("[1 1 0 0]" :> <<1,1,0,0,0,0,1,0,0,0>>) @@
         ("[1 0 0 1]" :> <<1,1,0,0,0,0,0,0,0,0>>) @@
         ("[0 0 0 1]" :> <<1,0,0,0,0,0,0,0,0,0>>) @@
         ("[0 1 1 0]" :> <<0,0,0,1,0,0,0,0,0,0>>) @@
         ("[1 0 1 0]" :> <<0,0,1,1,0,0,0,0,0,0>>) @@
         ("[1 0 0 0]" :> <<0,0,1,1,0,0,0,1,0,0>>))) @@
    ("[[1 1] [None None] [None None] [None None]]" :>
        (("[0 1 0 0]" :> <<0,0,0,1,0,0,0,1,0,0>>) @@
         ("[1 1 0 0]" :> <<1,1,0,0,0,0,1,0,0,0>>) @@
         ("[1 0 0 1]" :> <<1,1,0,0,0,0,0,0,0,0>>) @@
         ("[0 0 0 1]" :> <<1,0,0,0,0,0,0,0,0,0>>) @@
         ("[0 1 1 0]" :> <<0,0,0,1,0,0,0,0,0,0>>) @@
         ("[1 0 1 0]" :> <<0,0,1,1,0,0,0,0,0,0>>) @@
         ("[1 0 0 0]" :> <<0,0,1,1,0,0,0,1,0,0>>))) @@
    ("[[1 0] [None None] [None None] [None None]]" :> five_qubit_code_no_flag_LUT) @@
    ("[[0 0] [0 1] [None None] [None None]]" :>
        (("[1 0 1 0]" :> <<0,0,0,0,1,0,0,0,1,0>>) @@
         ("[0 1 1 0]" :> <<1,0,0,0,1,0,0,0,0,1>>) @@
         ("[0 1 0 0]" :> <<0,1,1,0,0,0,0,0,0,0>>) @@
         ("[1 0 0 0]" :> <<0,1,0,0,0,0,0,0,0,0>>) @@
         ("[0 0 1 1]" :> <<0,0,0,0,1,0,0,0,0,0>>) @@
         ("[0 1 0 1]" :> <<0,0,0,1,1,0,0,0,0,0>>) @@
         ("[1 1 0 0]" :> <<0,0,0,1,1,0,0,0,1,0>>))) @@
    ("[[0 0] [1 1] [None None] [None None]]" :>
        (("[1 0 1 0]" :> <<0,0,0,0,1,0,0,0,1,0>>) @@
         ("[0 1 1 0]" :> <<1,0,0,0,1,0,0,0,0,1>>) @@
         ("[0 1 0 0]" :> <<0,1,1,0,0,0,0,0,0,0>>) @@
         ("[1 0 0 0]" :> <<0,1,0,0,0,0,0,0,0,0>>) @@
         ("[0 0 1 1]" :> <<0,0,0,0,1,0,0,0,0,0>>) @@
         ("[0 1 0 1]" :> <<0,0,0,1,1,0,0,0,0,0>>) @@
         ("[1 1 0 0]" :> <<0,0,0,1,1,0,0,0,1,0>>))) @@
    ("[[0 0] [1 0] [None None] [None None]]" :> five_qubit_code_no_flag_LUT) @@
    ("[[0 0] [0 0] [0 1] [None None]]" :>
        (("[1 1 0 1]" :> <<0,0,0,0,0,0,0,0,1,1>>) @@
         ("[0 0 0 1]" :> <<1,0,0,0,0,0,0,0,0,0>>) @@
         ("[0 0 1 1]" :> <<1,0,0,0,0,0,0,1,0,0>>) @@
         ("[1 1 1 1]" :> <<0,1,0,0,1,0,0,0,0,1>>) @@
         ("[0 1 0 0]" :> <<0,0,0,0,0,0,0,0,0,1>>) @@
         ("[0 0 1 0]" :> <<0,0,0,1,0,0,0,0,0,1>>) @@
         ("[1 0 1 1]" :> <<0,0,0,1,0,0,0,0,1,1>>))) @@
    ("[[0 0] [0 0] [1 1] [None None]]" :>
        (("[1 1 0 1]" :> <<0,0,0,0,0,0,0,0,1,1>>) @@
         ("[0 0 0 1]" :> <<1,0,0,0,0,0,0,0,0,0>>) @@
         ("[0 0 1 1]" :> <<1,0,0,0,0,0,0,1,0,0>>) @@
         ("[1 1 1 1]" :> <<0,1,0,0,1,0,0,0,0,1>>) @@
         ("[0 1 0 0]" :> <<0,0,0,0,0,0,0,0,0,1>>) @@
         ("[0 0 1 0]" :> <<0,0,0,1,0,0,0,0,0,1>>) @@
         ("[1 0 1 1]" :> <<0,0,0,1,0,0,0,0,1,1>>))) @@
    ("[[0 0] [0 0] [1 0] [None None]]" :> five_qubit_code_no_flag_LUT) @@
    ("[[0 0] [0 0] [0 0] [0 1]]" :>
        (("[0 0 1 0]" :> <<0,0,0,1,0,0,0,0,0,1>>) @@
         ("[1 0 1 0]" :> <<0,0,0,0,0,1,0,0,0,0>>) @@
         ("[1 1 1 1]" :> <<0,0,0,0,0,1,1,0,0,0>>) @@
         ("[0 1 1 1]" :> <<0,1,0,0,0,1,1,0,0,0>>) @@
         ("[0 1 0 0]" :> <<0,0,0,0,0,0,0,0,0,1>>) @@
         ("[1 0 1 1]" :> <<0,0,0,1,0,0,0,0,0,1>>) @@
         ("[1 1 0 1]" :> <<0,0,0,0,0,0,0,0,1,1>>))) @@
    ("[[0 0] [0 0] [0 0] [1 1]]" :>
        (("[0 0 1 0]" :> <<0,0,0,1,0,0,0,0,0,1>>) @@
         ("[1 0 1 0]" :> <<0,0,0,0,0,1,0,0,0,0>>) @@
         ("[1 1 1 1]" :> <<0,0,0,0,0,1,1,0,0,0>>) @@
         ("[0 1 1 1]" :> <<0,1,0,0,0,1,1,0,0,0>>) @@
         ("[0 1 0 0]" :> <<0,0,0,0,0,0,0,0,0,1>>) @@
         ("[1 0 1 1]" :> <<0,0,0,1,0,0,0,0,0,1>>) @@
         ("[1 1 0 1]" :> <<0,0,0,0,0,0,0,0,1,1>>))) @@
    ("[[0 0] [0 0] [0 0] [1 0]]" :> five_qubit_code_no_flag_LUT)

\* the table "with possibly high-weight corrections"
five_qubit_code_flag_high_wt_LUT ==
    ("[[0 1] [None None] [None None] [None None]]" :>
        (("[0 1 0 0]" :> <<0,0,0,1,0,0,0,1,0,0>>) @@
         ("[1 1 0 0]" :> <<0,1,0,1,0,0,0,1,0,0>>) @@
         ("[1 0 0 1]" :> <<0,1,0,1,0,0,1,1,0,0>>) @@
         ("[0 0 0 1]" :> <<0,0,0,1,0,0,1,1,0,0>>) @@
         ("[0 1 1 0]" :> <<0,0,0,1,0,0,0,0,0,0>>) @@
         ("[1 0 1 0]" :> <<0,0,1,1,0,0,0,0,0,0>>) @@
         ("[1 0 0 0]" :> <<0,0,1,1,0,0,0,1,0,0>>))) @@
    ("[[1 1] [None None] [None None] [None None]]" :>
        (("[0 1 0 0]" :> <<0,0,0,1,0,0,0,1,0,0>>) @@
         ("[1 1 0 0]" :> <<0,1,0,1,0,0,0,1,0,0>>) @@
         ("[1 0 0 1]" :> <<0,1,0,1,0,0,1,1,0,0>>) @@
         ("[0 0 0 1]" :> <<0,0,0,1,0,0,1,1,0,0>>) @@
         ("[0 1 1 0]" :> <<0,0,0,1,0,0,0,0,0,0>>) @@
         ("[1 0 1 0]" :> <<0,0,1,1,0,0,0,0,0,0>>) @@
         ("[1 0 0 0]" :> <<0,0,1,1,0,0,0,1,0,0>>))) @@
    ("[[1 0] [None None] [None None] [None None]]" :> five_qubit_code_no_flag_LUT) @@
    ("[[0 0] [0 1] [None None] [None None]]" :>
        (("[1 0 1 0]" :> <<0,0,0,0,1,0,0,0,1,0>>) @@
         ("[0 1 1 0]" :> <<0,0,1,0,1,0,0,0,1,0>>) @@
         ("[0 1 0 0]" :> <<0,0,1,0,1,0,0,1,1,0>>) @@
         ("[1 0 0 0]" :> <<0,0,0,0,1,0,0,1,1,0>>) @@
         ("[0 0 1 1]" :> <<0,0,0,0,1,0,0,0,0,0>>) @@
         ("[0 1 0 1]" :> <<0,0,0,1,1,0,0,0,0,0>>) @@
         ("[1 1 0 0]" :> <<0,0,0,1,1,0,0,0,1,0>>))) @@
    ("[[0 0] [1 1] [None None] [None None]]" :>
        (("[1 0 1 0]" :> <<0,0,0,0,1,0,0,0,1,0>>) @@
         ("[0 1 1 0]" :> <<0,0,1,0,1,0,0,0,1,0>>) @@
         ("[0 1 0 0]" :> <<0,0,1,0,1,0,0,1,1,0>>) @@
         ("[1 0 0 0]" :> <<0,0,0,0,1,0,0,1,1,0>>) @@
         ("[0 0 1 1]" :> <<0,0,0,0,1,0,0,0,0,0>>) @@
         ("[0 1 0 1]" :> <<0,0,0,1,1,0,0,0,0,0>>) @@
         ("[1 1 0 0]" :> <<0,0,0,1,1,0,0,0,1,0>>))) @@
    ("[[0 0] [1 0] [None None] [None None]]" :> five_qubit_code_no_flag_LUT) @@
    ("[[0 0] [0 0] [0 1] [None None]]" :>
        (("[1 1 0 1]" :> <<0,0,0,0,0,0,0,0,1,1>>) @@
         ("[0 0 0 1]" :> <<0,0,1,0,0,0,0,0,1,1>>) @@
         ("[0 0 1 1]" :> <<0,0,1,0,0,0,0,1,1,1>>) @@
         ("[1 1 1 1]" :> <<0,0,0,0,0,0,0,1,1,1>>) @@
         ("[0 1 0 0]" :> <<0,0,0,0,0,0,0,0,0,1>>) @@
         ("[0 0 1 0]" :> <<0,0,0,1,0,0,0,0,0,1>>) @@
         ("[1 0 1 1]" :> <<0,0,0,1,0,0,0,0,1,1>>))) @@
    ("[[0 0] [0 0] [1 1] [None None]]" :>
        (("[1 1 0 1]" :> <<0,0,0,0,0,0,0,0,1,1>>) @@
         ("[0 0 0 1]" :> <<0,0,1,0,0,0,0,0,1,1>>) @@
         ("[0 0 1 1]" :> <<0,0,1,0,0,0,0,1,1,1>>) @@
         ("[1 1 1 1]" :> <<0,0,0,0,0,0,0,1,1,1>>) @@
         ("[0 1 0 0]" :> <<0,0,0,0,0,0,0,0,0,1>>) @@
         ("[0 0 1 0]" :> <<0,0,0,1,0,0,0,0,0,1>>) @@
         ("[1 0 1 1]" :> <<0,0,0,1,0,0,0,0,1,1>>))) @@
    ("[[0 0] [0 0] [1 0] [None None]]" :> five_qubit_code_no_flag_LUT) @@
    ("[[0 0] [0 0] [0 0] [0 1]]" :>
        (("[0 0 1 0]" :> <<0,0,0,1,0,0,0,0,0,1>>) @@
         ("[1 0 1 0]" :> <<0,1,0,1,0,0,0,0,0,1>>) @@
         ("[1 1 1 1]" :> <<0,1,0,1,0,0,0,0,0,1>>) @@
         ("[0 1 1 1]" :> <<0,0,0,1,0,0,1,0,0,1>>) @@
         ("[0 1 0 0]" :> <<0,0,0,0,0,0,0,0,0,1>>) @@
         ("[1 0 1 1]" :> <<0,0,0,1,0,0,0,0,0,1>>) @@
         ("[1 1 0 1]" :> <<0,0,0,0,0,0,0,0,1,1>>))) @@
    ("[[0 0] [0 0] [0 0] [1 1]]" :>
        (("[0 0 1 0]" :> <<0,0,0,1,0,0,0,0,0,1>>) @@
         ("[1 0 1 0]" :> <<0,1,0,1,0,0,0,0,0,1>>) @@
         ("[1 1 1 1]" :> <<0,1,0,1,0,0,0,0,0,1>>) @@
         ("[0 1 1 1]" :> <<0,0,0,1,0,0,1,0,0,1>>) @@
         ("[0 1 0 0]" :> <<0,0,0,0,0,0,0,0,0,1>>) @@
         ("[1 0 1 1]" :> <<0,0,0,1,0,0,0,0,0,1>>) @@
         ("[1 1 0 1]" :> <<0,0,0,0,0,0,0,0,1,1>>))) @@
    ("[[0 0] [0 0] [0 0] [1 0]]" :> five_qubit_code_no_flag_LUT)

\* logical_ops default of five_qubit_code_flag_protocol.__init__
logical_ops == << <<1,1,1,1,1, 0,0,0,0,0>>, <<0,0,0,0,0, 1,1,1,1,1>> >>

\* ------------------------------------------------------------------------
\* Circuits: <<gate, first operand, second operand, error_loc>>
\* ------------------------------------------------------------------------
\* Mutation of WithFlagCircuit: the two gates between flag and ancilla are
\* left out
WithFlagCircuitUnflagged(g) ==
    IF g = 1 THEN
        << <<"xnot", data_qubits[0], anc_qubits[0], 1>>,
           <<"cnot", data_qubits[1], anc_qubits[0], 3>>,
           <<"cnot", data_qubits[2], anc_qubits[0], 4>>,
           <<"xnot", data_qubits[3], anc_qubits[0], 6>> >>
    ELSE IF g = 2 THEN
        << <<"xnot", data_qubits[1], anc_qubits[0], 7>>,
           <<"cnot", data_qubits[2], anc_qubits[0], 9>>,
           <<"cnot", data_qubits[3], anc_qubits[0], 10>>,
           <<"xnot", data_qubits[4], anc_qubits[0], 12>> >>
    ELSE IF g = 3 THEN
        << <<"xnot", data_qubits[0], anc_qubits[0], 13>>,
           <<"xnot", data_qubits[2], anc_qubits[0], 15>>,
           <<"cnot", data_qubits[3], anc_qubits[0], 16>>,
           <<"cnot", data_qubits[4], anc_qubits[0], 18>> >>
    ELSE
        << <<"cnot", data_qubits[0], anc_qubits[0], 19>>,
           <<"xnot", data_qubits[1], anc_qubits[0], 21>>,
           <<"xnot", data_qubits[3], anc_qubits[0], 22>>,
           <<"cnot", data_qubits[4], anc_qubits[0], 24>> >>

WithFlagCircuit(g) ==
    IF g = 1 THEN
        << <<"xnot", data_qubits[0], anc_qubits[0], 1>>,
           <<"cnot", flag_qubits[0], anc_qubits[0], 2>>,
           <<"cnot", data_qubits[1], anc_qubits[0], 3>>,
           <<"cnot", data_qubits[2], anc_qubits[0], 4>>,
           <<"cnot", flag_qubits[0], anc_qubits[0], 5>>,
           <<"xnot", data_qubits[3], anc_qubits[0], 6>> >>
    ELSE IF g = 2 THEN
        << <<"xnot", data_qubits[1], anc_qubits[0], 7>>,
           <<"cnot", flag_qubits[0], anc_qubits[0], 8>>,
           <<"cnot", data_qubits[2], anc_qubits[0], 9>>,
           <<"cnot", data_qubits[3], anc_qubits[0], 10>>,
           <<"cnot", flag_qubits[0], anc_qubits[0], 11>>,
           <<"xnot", data_qubits[4], anc_qubits[0], 12>> >>
    ELSE IF g = 3 THEN
        << <<"xnot", data_qubits[0], anc_qubits[0], 13>>,
           <<"cnot", flag_qubits[0], anc_qubits[0], 14>>,
           <<"xnot", data_qubits[2], anc_qubits[0], 15>>,
           <<"cnot", data_qubits[3], anc_qubits[0], 16>>,
           <<"cnot", flag_qubits[0], anc_qubits[0], 17>>,
           <<"cnot", data_qubits[4], anc_qubits[0], 18>> >>
    ELSE
        << <<"cnot", data_qubits[0], anc_qubits[0], 19>>,
           <<"cnot", flag_qubits[0], anc_qubits[0], 20>>,
           <<"xnot", data_qubits[1], anc_qubits[0], 21>>,
           <<"xnot", data_qubits[3], anc_qubits[0], 22>>,
           <<"cnot", flag_qubits[0], anc_qubits[0], 23>>,
           <<"cnot", data_qubits[4], anc_qubits[0], 24>> >>

WithoutFlagCircuit(k) ==
    IF k = 1 THEN
        << <<"xnot", data_qubits[0], anc_qubits[0], 100>>,
           <<"cnot", data_qubits[1], anc_qubits[0], 101>>,
           <<"cnot", data_qubits[2], anc_qubits[0], 102>>,
           <<"xnot", data_qubits[3], anc_qubits[0], 103>> >>
    ELSE IF k = 2 THEN
        << <<"xnot", data_qubits[1], anc_qubits[0], 104>>,
           <<"cnot", data_qubits[2], anc_qubits[0], 105>>,
           <<"cnot", data_qubits[3], anc_qubits[0], 106>>,
           <<"xnot", data_qubits[4], anc_qubits[0], 107>> >>
    ELSE IF k = 3 THEN
        << <<"xnot", data_qubits[0], anc_qubits[0], 108>>,
           <<"xnot", data_qubits[2], anc_qubits[0], 109>>,
           <<"cnot", data_qubits[3], anc_qubits[0], 110>>,
           <<"cnot", data_qubits[4], anc_qubits[0], 111>> >>
    ELSE
        << <<"cnot", data_qubits[0], anc_qubits[0], 112>>,
           <<"xnot", data_qubits[1], anc_qubits[0], 113>>,
           <<"xnot", data_qubits[3], anc_qubits[0], 114>>,
           <<"cnot", data_qubits[4], anc_qubits[0], 115>> >>

\* ------------------------------------------------------------------------
\* The protocol object.  A handler is an operator from the object's state
\* before the call to the set of states the call can leave, one per outcome
\* of the draws.  The state is a record:
\*   acc      qec_flag_base_ckt.pauli_accumulator
\*   status   syndrome_ex_status
\*   current  current_syndrome_n_flag
\*   first    syndrome_n_flag_1st_subround
\*   second   syndrome_2nd_subround
\*   counts   logical_error_counts
\*   failure  "none", or the message of the assertion that ended the call
\* and, as history of the run,
\*   nf          the faults fired so far (a fault fires only while nf < MaxFaults)
\*   gate_faults those of them that two_qubit_gate_depol_error injected
\*   ops         the methods entered, in order, each with its rate or index
\*               argument if it has one
\*   status_log  the values assigned to syndrome_ex_status by the last
\*               syndrome_extraction, in order
\*   meas_log    the generator measurements it made, in order, each
\*               <<"with_flag", g, syndrome, flag>> or <<"without_flag", g, syndrome, -1>>
\*   ngates      the two-qubit gates run by the call in progress
\*   resynced    the accumulator logical_error_tracking last tested
\*   fired       the faults the call in progress fired, in order, each with
\*               the place it fired at: <<operation, status, measurements made
\*               so far by the extraction, gate, Pauli picked>>
\* ------------------------------------------------------------------------
MayFire(nf, p_err) == nf < MaxFaults /\ p_err > 0

\* the draws <<u, dec>> of one two-qubit gate
GateDraws(nf, p_err) ==
    {<<1, 0>>} \cup (IF MayFire(nf, p_err) THEN {<<0, dec>> : dec \in 0..14} ELSE {})

\* the draw u of one preparation or measurement
FlipDraws(nf, p_err) ==
    {1} \cup (IF MayFire(nf, p_err) THEN {0} ELSE {})

Count(nf, u, p_err) == IF Fires(u, p_err) THEN nf + 1 ELSE nf

\* the place of r at which an operation draws
Place(r, operation, operand) == <<operation, r.status, Len(r.meas_log), operand>>

\* r.fired after a draw u against p_err, made at place, that picks the Pauli dec
FiredAt(r, u, p_err, place, dec) ==
    IF Fires(u, p_err) THEN Append(r.fired, place \o <<dec>>) ELSE r.fired

Fired(r, u, p_err, operation, operand, dec) ==
    FiredAt(r, u, p_err, Place(r, operation, operand), dec)

SetStatus(r, s) == [r EXCEPT !.status = s, !.status_log = Append(@, s)]

\* a gate of a circuit is <<name, qubit, qubit, error_loc>>
ApplyGate(gate, acc, u, dec, p_err, test_config, model) ==
    IF gate[1] = "xnot"
    THEN xnot(acc, gate[2], gate[3], u, dec, p_err, test_config, gate[4], model)
    ELSE cnot(acc, gate[2], gate[3], u, dec, p_err, test_config, gate[4], model)

RECURSIVE RunGates(_, _, _, _, _)
RunGates(runs, gates, p_err, test_config, model) ==
    IF gates = <<>> THEN runs
    ELSE LET p2 == error_scale_factor_two_qubit_gate(model) * p_err
         IN  RunGates(UNION {{[r EXCEPT !.acc = ApplyGate(Head(gates), r.acc, d[1], d[2], p_err,
                                                          test_config, model),
                                        !.nf = Count(r.nf, d[1], p2),
                                        !.gate_faults = Count(r.gate_faults, d[1], p2),
                                        !.fired = Fired(r, d[1], p2, "gate", Head(gates), d[2]),
                                        !.ngates = @ + 1]
                              : d \in GateDraws(r.nf, p2)} : r \in runs},
                      Tail(gates), p_err, test_config, model)

\* the patterns one_stochastic_pauli_error_data_qubits can inject: pat[n] is
\* 0 when the first draw of data qubit n does not fire, else the Pauli picked
Weight(pat) == Cardinality({n \in DOMAIN pat : pat[n] # 0})

StochasticPatterns(nf, p_err) ==
    IF MayFire(nf, p_err)
    THEN {pat \in [0..(num_data_qubits - 1) -> 0..3] : Weight(pat) <= MaxWeight}
    ELSE {[n \in 0..(num_data_qubits - 1) |-> 0]}

NoPattern(pat) == Weight(pat) = 0

RunStochastic(runs, p_err) ==
    UNION {{[r EXCEPT !.acc = one_stochastic_pauli_error_data_qubits(r.acc, pat),
                      !.nf = IF NoPattern(pat) THEN r.nf ELSE r.nf + 1,
                      !.fired = IF NoPattern(pat) THEN r.fired
                                ELSE Append(r.fired, Place(r, "pattern", <<>>) \o <<pat>>)]
            : pat \in StochasticPatterns(r.nf, p_err)} : r \in runs}

RunResetAncilla(runs, p_err, model) ==
    LET pp == error_scale_factor_prep(model) * p_err
    IN  UNION {{[r EXCEPT !.acc = reset_ancilla(r.acc, u, p_err, model),
                          !.nf = Count(r.nf, u, pp),
                          !.fired = Fired(r, u, pp, "reset_ancilla", <<>>, 0)]
                : u \in FlipDraws(r.nf, pp)} : r \in runs}

RunResetFlag(runs, p_err, model) ==
    LET pp == error_scale_factor_prep(model) * p_err
    IN  UNION {{[r EXCEPT !.acc = reset_flag(r.acc, u, p_err, model),
                          !.nf = Count(r.nf, u, pp),
                          !.fired = Fired(r, u, pp, "reset_flag", <<>>, 0)]
                : u \in FlipDraws(r.nf, pp)} : r \in runs}

\* measure_ancilla_and_flag: current_syndrome_n_flag is [[syndrome, flag]]
\* with a flag, [syndrome] without
measure_ancilla_and_flag(runs, with_flag, p_err, model) ==
    LET pm == error_scale_factor_meas(model) * p_err
        m1 == UNION {{[r EXCEPT !.current = PyArray1(<<measure_Z_basis(r.acc, anc_qubits[0], u, p_err, model)>>),
                                !.nf = Count(r.nf, u, pm),
                                !.fired = Fired(r, u, pm, "measure_Z_basis", <<>>, 0)]
                      : u \in FlipDraws(r.nf, pm)} : r \in runs}
    IN  IF with_flag
        THEN UNION {{[r EXCEPT !.current = PyArray2(<< <<r.current.vals[1],
                                    measure_X_basis(r.acc, flag_qubits[0], u, p_err, model)>> >>),
                               !.nf = Count(r.nf, u, pm),
                               !.fired = Fired(r, u, pm, "measure_X_basis", <<>>, 0)]
                     : u \in FlipDraws(r.nf, pm)} : r \in m1}
        ELSE m1

\* Mutation of init_state: the flag is not prepared again
init_state_without_flag(self, p_err, model) ==
    LET pp == error_scale_factor_prep(model) * p_err
        s0 == [self EXCEPT !.ops = Append(@, <<"init_state", p_err>>)]
    IN  {[s0 EXCEPT !.acc = prepare_Z_basis(s0.acc, anc_qubits[0], u, p_err, model),
                    !.nf = Count(s0.nf, u, pp),
                    !.fired = FiredAt(s0, u, pp, <<"prepare_Z_basis", "init_state", 0, <<>> >>, 0)]
         : u \in FlipDraws(s0.nf, pp)}

\* init_state: prepare_Z_basis on the ancilla, prepare_X_basis on the flag
init_state(self, p_err, model) ==
    LET pp == error_scale_factor_prep(model) * p_err
        s0 == [self EXCEPT !.ops = Append(@, <<"init_state", p_err>>)]
        a1 == {[s0 EXCEPT !.acc = prepare_Z_basis(s0.acc, anc_qubits[0], u, p_err, model),
                          !.nf = Count(s0.nf, u, pp),
                          !.fired = FiredAt(s0, u, pp, <<"prepare_Z_basis", "init_state", 0, <<>> >>, 0)]
               : u \in FlipDraws(s0.nf, pp)}
    IN  UNION {{[r EXCEPT !.acc = prepare_X_basis(r.acc, flag_qubits[0], u, p_err, model),
                          !.nf = Count(r.nf, u, pp),
                          !.fired = FiredAt(r, u, pp, <<"prepare_X_basis", "init_state", 0, <<>> >>, 0)]
                : u \in FlipDraws(r.nf, pp)} : r \in a1}

\* Mutation of update_syn_ex_status: the syndrome bit is tested before the flag
update_syn_ex_status_syndrome_first(r) ==
    IF r.current.rows[1][1] = 1 THEN SetStatus(r, "DET_NONZERO_SYNDROME")
    ELSE IF r.current.rows[1][2] = 1 THEN SetStatus(r, "DET_RAISED_FLAG")
    ELSE SetStatus(r, "DET_UNRAISED_FLAG_AND_ZERO_SYNDROME")

\* update_syn_ex_status on current_syndrome_n_flag = [[syndrome, flag]]
update_syn_ex_status(r) ==
    IF r.current.rows[1][2] = 1 THEN SetStatus(r, "DET_RAISED_FLAG")
    ELSE IF r.current.rows[1][1] = 1 THEN SetStatus(r, "DET_NONZERO_SYNDROME")
    ELSE IF r.current.rows[1][2] = 0 /\ r.current.rows[1][1] = 0
         THEN SetStatus(r, "DET_UNRAISED_FLAG_AND_ZERO_SYNDROME")
    ELSE r

\* one unflagged generator measurement of measure_full_syndrome_without_flags
WithoutFlagStage(runs, k, p_err, test_config, model) ==
    LET r1 == IF model = "CODE_CAPACITY_NOISE" THEN RunStochastic(runs, p_err) ELSE runs
        r2 == RunGates(r1, WithoutFlagCircuit(k), p_err, test_config, model)
        r3 == measure_ancilla_and_flag(r2, FALSE, p_err, model)
        r4 == {[r EXCEPT !.second = IF k = 1 THEN r.current
                                    ELSE PyArray1(r.second.vals \o r.current.vals),
                         !.meas_log = Append(@, <<"without_flag", k, r.current.vals[1], -1>>)]
               : r \in r3}
    IN  RunResetAncilla(r4, p_err, model)

AssertWithoutFlag == "Incorrect syndrome extraction status before measurement without flags."

\* Mutation of measure_full_syndrome_without_flags: the fourth generator is
\* not measured
measure_three_syndromes_without_flags(self, test_config, p_err, model) ==
    IF self.status # "MEAS_GEN_WITHOUT_FLAG"
    THEN {[self EXCEPT !.failure = AssertWithoutFlag]}
    ELSE WithoutFlagStage(WithoutFlagStage(WithoutFlagStage(
            {self}, 1, p_err, test_config, model), 2, p_err, test_config, model),
            3, p_err, test_config, model)

measure_full_syndrome_without_flags(self, test_config, p_err, model) ==
    IF self.status # "MEAS_GEN_WITHOUT_FLAG"
    THEN {[self EXCEPT !.failure = AssertWithoutFlag]}
    ELSE WithoutFlagStage(WithoutFlagStage(WithoutFlagStage(WithoutFlagStage(
            {self}, 1, p_err, test_config, model), 2, p_err, test_config, model),
            3, p_err, test_config, model), 4, p_err, test_config, model)

\* whether one_stochastic_pauli_error_data_qubits runs before the with-flag
\* circuit of generator g
StochasticBeforeWithFlag(g, model) ==
    IF g = 1
    THEN model \in {"ONE_STOCHASTIC_PAULI_ERROR", "CODE_CAPACITY_NOISE"}
    ELSE model = "CODE_CAPACITY_NOISE"

\* the with-flag measurement of generator g: circuit, measurement, append to
\* the 1st-subround record, reset_ancilla, reset_flag, update_syn_ex_status
WithFlagStage(runs, g, p_err, test_config, model) ==
    LET r1 == IF StochasticBeforeWithFlag(g, model) THEN RunStochastic(runs, p_err) ELSE runs
        r2 == RunGates(r1, WithFlagCircuit(g), p_err, test_config, model)
        r3 == measure_ancilla_and_flag(r2, TRUE, p_err, model)
        r4 == {[r EXCEPT !.first = IF g = 1 THEN r.current
                                   ELSE PyArray2(r.first.rows \o r.current.rows),
                         !.meas_log = Append(@, <<"with_flag", g, r.current.rows[1][1],
                                                  r.current.rows[1][2]>>)]
               : r \in r3}
        r5 == RunResetFlag(RunResetAncilla(r4, p_err, model), p_err, model)
    IN  {update_syn_ex_status(r) : r \in r5}

\* Mutation of Padding: one sentinel row whatever the generator
PaddingOfOne(g) == <<NoneRow>>

\* the sentinel rows appended when generator g triggers the remeasurement
Padding(g) == [n \in 1..(4 - g) |-> NoneRow]

\* Mutation of Remeasure: the status is not set back to IDLE
RemeasureWithoutIdle(r, g, p_err, test_config, model) ==
    {IF m.failure # "none" THEN m
     ELSE [m EXCEPT !.first = PyStr(array2string_2d(m.first.rows)),
                    !.second = PyStr(array2string_1d(m.second.vals))]
     : m \in measure_full_syndrome_without_flags(
                 SetStatus([r EXCEPT !.first = PyArray2(r.first.rows
                                \o [n \in 1..(4 - g) |-> NoneRow])],
                           "MEAS_GEN_WITHOUT_FLAG"), test_config, p_err, model)}

\* DET_RAISED_FLAG or DET_NONZERO_SYNDROME at generator g: pad, remeasure all
\* generators without flags, IDLE, turn both records into keys, return
Remeasure(r, g, p_err, test_config, model) ==
    LET padded == IF g < 4 THEN [r EXCEPT !.first = PyArray2(r.first.rows \o Padding(g))] ELSE r
        measured == measure_full_syndrome_without_flags(
                        SetStatus(padded, "MEAS_GEN_WITHOUT_FLAG"), test_config, p_err, model)
    IN  {IF m.failure # "none" THEN m
         ELSE [SetStatus(m, "IDLE") EXCEPT !.first = PyStr(array2string_2d(m.first.rows)),
                                           !.second = PyStr(array2string_1d(m.second.vals))]
         : m \in measured}

\* Mutation of ReturnAllClear: the unflagged remeasurement's record is made up
ReturnAllClearWithSecond(r) ==
    [SetStatus(r, "IDLE") EXCEPT
        !.first = PyStr(array2string_2d(r.first.rows)),
        !.second = PyStr(array2string_1d(<<0, 0, 0, 0>>))]

\* DET_UNRAISED_FLAG_AND_ZERO_SYNDROME at generator 4: IDLE, the 1st-subround
\* record becomes its key, the 2nd-subround record only if it is not None
ReturnAllClear(r) ==
    [SetStatus(r, "IDLE") EXCEPT
        !.first = PyStr(array2string_2d(r.first.rows)),
        !.second = IF r.second.kind # "None" THEN PyStr(array2string_1d(r.second.vals))
                   ELSE r.second]

Triggered(r) == r.status \in {"DET_RAISED_FLAG", "DET_NONZERO_SYNDROME"}

RECURSIVE FlagProtocol(_, _, _, _, _)
FlagProtocol(runs, g, p_err, test_config, model) ==
    LET measured == WithFlagStage(runs, g, p_err, test_config, model)
        clear == {r \in measured : r.status = "DET_UNRAISED_FLAG_AND_ZERO_SYNDROME"}
    IN  UNION {Remeasure(r, g, p_err, test_config, model) : r \in {m \in measured : Triggered(m)}}
        \cup (IF g = 4 THEN {ReturnAllClear(r) : r \in clear}
              ELSE FlagProtocol({SetStatus(r, "MEAS_GEN_WITH_FLAG") : r \in clear},
                                g + 1, p_err, test_config, model))

AssertIdle == "Syndrome extraction status should be IDLE at the beginning."

\* the protocol object has no method two_qubit_pauli_error (it is a method
\* of qec_flag_base_ckt): the call for location 0 ends with this error
NoTwoQubitPauliError == "AttributeError"

\* Mutation of BeginExtraction: the 2nd-subround record is not reset
BeginExtractionKeepingSecond(self, test_config, p_err) ==
    LET s0 == [SetStatus([self EXCEPT !.status_log = <<>>], "MEAS_GEN_WITH_FLAG")
                  EXCEPT !.first = PyNone, !.current = PyNone,
                         !.meas_log = <<>>,
                         !.ops = Append(@, <<"syndrome_extraction", p_err>>)]
    IN  IF ~test_config.is_none /\ test_config.inject_error /\ test_config.error_loc = 0
        THEN [s0 EXCEPT !.failure = NoTwoQubitPauliError]
        ELSE s0

\* the statements of syndrome_extraction up to the first circuit: the records
\* are reset, the status is set, and a directed error at location 0 is tried
BeginExtraction(self, test_config, p_err) ==
    LET s0 == [SetStatus([self EXCEPT !.status_log = <<>>], "MEAS_GEN_WITH_FLAG")
                  EXCEPT !.first = PyNone, !.second = PyNone, !.current = PyNone,
                         !.meas_log = <<>>,
                         !.ops = Append(@, <<"syndrome_extraction", p_err>>)]
    IN  IF ~test_config.is_none /\ test_config.inject_error /\ test_config.error_loc = 0
        THEN [s0 EXCEPT !.failure = NoTwoQubitPauliError]
        ELSE s0

\* Mutation of syndrome_extraction: no assertion on the entry status
syndrome_extraction_unasserted(self, test_config, p_err, model) ==
    LET s0 == BeginExtraction(self, test_config, p_err)
    IN  IF s0.failure # "none" THEN {s0}
        ELSE FlagProtocol({s0}, 1, p_err, test_config, model)

syndrome_extraction(self, test_config, p_err, model) ==
    IF self.status # "IDLE"
    THEN {[self EXCEPT !.failure = AssertIdle]}
    ELSE LET s0 == BeginExtraction(self, test_config, p_err)
         IN  IF s0.failure # "none" THEN {s0}
             ELSE FlagProtocol({s0}, 1, p_err, test_config, model)

\* ------------------------------------------------------------------------
\* Decoder and logical-error check
\* ------------------------------------------------------------------------
\* Mutation of ExtendCorrection: the zeros are added at the end only
ExtendCorrectionAtEnd(correction) ==
    [n \in AccIdx |-> IF n < 2 * num_data_qubits THEN correction[n + 1] ELSE 0]

\* the correction with zeros added for the ancilla and flag qubits
ExtendCorrection(correction) ==
    [n \in AccIdx |->
        IF n < num_data_qubits THEN correction[n + 1]
        ELSE IF n < num_all_qubits THEN 0
        ELSE IF n < num_all_qubits + num_data_qubits
             THEN correction[n - num_all_qubits + num_data_qubits + 1]
        ELSE 0]

\* x in d for a Python value x and a dict d keyed by strings
InDict(x, d) == x.kind = "str" /\ x.str \in DOMAIN d

\* x in table[key] for a Python value x that is None or a str.  The values
\* of five_qubit_code_no_flag_LUT are ndarrays of ints, for which `in` is
\* (array == x).any(), False for None and for a str; the values of the flag
\* tables are dicts
InValue(x, table, key) ==
    IF table = five_qubit_code_no_flag_LUT THEN FALSE
    ELSE InDict(x, table[key])

\* Mutation of syndrome_decoding: a lookup miss clears the accumulator
syndrome_decoding_clearing(self, table) ==
    LET s0 == [self EXCEPT !.ops = Append(@, <<"syndrome_decoding">>)]
    IN  IF InDict(s0.first, table) /\ InValue(s0.second, table, s0.first.str)
        THEN [s0 EXCEPT !.acc = logical_xor(s0.acc,
                                    ExtendCorrection(table[s0.first.str][s0.second.str]))]
        ELSE [s0 EXCEPT !.acc = clear_pauli_accumulator]

syndrome_decoding(self, table) ==
    LET s0 == [self EXCEPT !.ops = Append(@, <<"syndrome_decoding">>)]
    IN  IF InDict(s0.first, table) /\ InValue(s0.second, table, s0.first.str)
        THEN [s0 EXCEPT !.acc = logical_xor(s0.acc,
                                    ExtendCorrection(table[s0.first.str][s0.second.str]))]
        ELSE s0

\* np.concatenate((acc[0:k], acc[N:N+k]))
pauli_accumulator_data_qubits(acc) ==
    [n \in 1..(2 * num_data_qubits) |->
        IF n <= num_data_qubits THEN acc[n - 1]
        ELSE acc[num_all_qubits + n - num_data_qubits - 1]]

RECURSIVE SumTo(_, _)
SumTo(f, n) == IF n = 0 THEN 0 ELSE f[n] + SumTo(f, n - 1)

\* one entry of (v . L . logical_ops^T) % 2 with L = [[0, I], [I, 0]]
commutation(v, op) ==
    LET k == num_data_qubits
    IN  SumTo([n \in 1..(2 * k) |-> v[n] * (IF n <= k THEN op[n + k] ELSE op[n - k])],
              2 * k) % 2

\* Mutation of AnyCommutation: only the first logical operator is tested
AnyCommutationFirstRow(acc) ==
    commutation(pauli_accumulator_data_qubits(acc), logical_ops[1]) # 0

\* np.any(commutation)
AnyCommutation(acc) ==
    \E row \in 1..Len(logical_ops) :
        commutation(pauli_accumulator_data_qubits(acc), logical_ops[row]) # 0

\* Mutation of Verdict: the copy is never restored
VerdictWithoutRestore(r, before, jj) ==
    IF AnyCommutation(r.acc)
    THEN [r EXCEPT !.ops = Append(@, <<"commutation">>), !.resynced = r.acc,
                   !.counts[jj] = PyInt(@.num + 1), !.acc = clear_pauli_accumulator]
    ELSE [r EXCEPT !.ops = Append(@, <<"commutation">>), !.resynced = r.acc]

\* the verdict of logical_error_tracking on the state after the noiseless
\* cycle: count and create_circuit, or restore the copy
Verdict(r, before, jj) ==
    LET s0 == [r EXCEPT !.ops = Append(@, <<"commutation">>), !.resynced = r.acc]
    IN  IF AnyCommutation(s0.acc)
        THEN [s0 EXCEPT !.counts[jj] = PyInt(@.num + 1), !.acc = clear_pauli_accumulator]
        ELSE [s0 EXCEPT !.acc = before]

\* Mutation of logical_error_tracking: the extra cycle runs at a positive rate
logical_error_tracking_noisy(self, jj, model, table) ==
    {IF r.failure # "none" THEN r
     ELSE Verdict(syndrome_decoding(r, table), self.acc, jj)
     : r \in syndrome_extraction([self EXCEPT !.ops = Append(@, <<"logical_error_tracking", jj>>)],
                                 NoTestConfig, 1, model)}

logical_error_tracking(self, jj, model, table) ==
    LET pauli_accumulator_before_noiseless_qec == self.acc
        s0 == [self EXCEPT !.ops = Append(@, <<"logical_error_tracking", jj>>)]
    IN  {IF r.failure # "none" THEN r
         ELSE Verdict(syndrome_decoding(r, table), pauli_accumulator_before_noiseless_qec, jj)
         : r \in syndrome_extraction(s0, NoTestConfig, -1, model)}

\* Mutation of cleanup: the accumulator is cleared with the records
cleanup_clearing_accumulator(self) ==
    [self EXCEPT !.status = "IDLE", !.current = PyNone, !.first = PyNone, !.second = PyNone,
                 !.acc = clear_pauli_accumulator,
                 !.ops = Append(@, <<"cleanup">>)]

cleanup(self) ==
    [self EXCEPT !.status = "IDLE", !.current = PyNone, !.first = PyNone, !.second = PyNone,
                 !.ops = Append(@, <<"cleanup">>)]

\* ------------------------------------------------------------------------
\* State
\* ------------------------------------------------------------------------
VARIABLES
    \* constructor arguments and the ambient MPI globals
    p_phys, samples_per_point, error_model, syndrome_lookup_table,
    driver, num_cores, my_rank,
    \* qec_flag_base_ckt.pauli_accumulator
    pauli_accumulator,
    \* fields of the protocol object
    syndrome_ex_status, current_syndrome_n_flag,
    syndrome_n_flag_1st_subround, syndrome_2nd_subround, logical_error_counts,
    \* locals of the drivers, and the position of the driver
    batch_size, j, i, source, pc,
    \* messages handed to comm.send (all to rank 0 with tag 1000 + my_rank),
    \* the dict of rank 0 with its own and the received entries, and the
    \* totals rank 0 computes from it
    outbox, results_per_batch_per_p_phys, complete_results,
    \* "none", or the assertion that ended the program
    failure,
    \* history: faults fired so far, handlers entered in the current round,
    \* statuses and measurements of the last syndrome_extraction, gates of the
    \* last call, the accumulator the last logical-error check tested
    faults, gate_faults, ops, status_log, meas_log, ngates, resynced,
    \* history: the method the last step called, the object as that call
    \* found it, the test_config it was given, and the number of direct calls
    \* made so far
    called, entry, test_config, ncalls,
    \* history: the object as the last init_state, the first call of a round,
    \* found it
    round_start,
    \* the distributed run set beside a single-worker run: the object of the
    \* worker that runs the round in progress, with the faults of that round,
    \* the counts of the workers before it added up, whether every call so
    \* far could be given the same faults, and whether every round so far
    \* began in the single-worker run with no error on the data qubits
    worker,
    \* a caller of the engine alone: the arguments and draws of its last call
    \* and the outcome a measurement returned; and a second engine object that
    \* starts as the first and is given the same calls, with other draws that
    \* make the same faults fire
    call_args, meas_outcome, replay_accumulator, replay_outcome,
    \* comm = MPI.COMM_WORLD when all its ranks are followed together: where
    \* each rank is in p_phys_sweep_simulation_mpi, with its locals, and per
    \* sender the messages handed to comm.send that rank 0 has not received
    comm

inputs == <<p_phys, samples_per_point, error_model, syndrome_lookup_table,
            driver, num_cores, my_rank, comm>>
object == <<pauli_accumulator, syndrome_ex_status, current_syndrome_n_flag,
            syndrome_n_flag_1st_subround, syndrome_2nd_subround, logical_error_counts,
            failure, faults, gate_faults, ops, status_log, meas_log, ngates, resynced>>
mpi == <<source, outbox, results_per_batch_per_p_phys, complete_results>>
engine == <<call_args, meas_outcome, replay_accumulator, replay_outcome>>

vars == <<p_phys, samples_per_point, error_model, syndrome_lookup_table,
          driver, num_cores, my_rank,
          pauli_accumulator, syndrome_ex_status, current_syndrome_n_flag,
          syndrome_n_flag_1st_subround, syndrome_2nd_subround, logical_error_counts,
          batch_size, j, i, source, pc, outbox, results_per_batch_per_p_phys, complete_results,
          failure, faults, gate_faults, ops, status_log, meas_log, ngates, resynced,
          called, entry, test_config, ncalls, round_start, worker,
          call_args, meas_outcome, replay_accumulator, replay_outcome, comm>>

\* the communicator while one rank is followed on its own
NoComm == [rank |-> <<>>, queue |-> <<>>]

\* the object's state as the record the handlers work on
Self ==
    [acc |-> pauli_accumulator, status |-> syndrome_ex_status,
     current |-> current_syndrome_n_flag, first |-> syndrome_n_flag_1st_subround,
     second |-> syndrome_2nd_subround, counts |-> logical_error_counts,
     failure |-> failure, nf |-> faults, gate_faults |-> gate_faults, ops |-> ops,
     status_log |-> status_log, meas_log |-> meas_log,
     ngates |-> 0, resynced |-> resynced, fired |-> <<>>]

\* what a call finds: the part of the object a method can read or write
Snapshot ==
    [acc |-> pauli_accumulator, status |-> syndrome_ex_status,
     current |-> current_syndrome_n_flag, first |-> syndrome_n_flag_1st_subround,
     second |-> syndrome_2nd_subround, counts |-> logical_error_counts,
     nf |-> faults, gate_faults |-> gate_faults]

\* the step is a call of method m of the protocol object, given tc
Called(m, tc) ==
    /\ called' = m /\ entry' = Snapshot /\ test_config' = tc
    /\ round_start' = (IF m = "init_state" THEN Snapshot ELSE round_start)

CallsWith(m, tc) == Called(m, tc) /\ UNCHANGED <<engine, worker>>

\* the step is a call of method m, with test_config left at its default
Calls(m) == CallsWith(m, NoTestConfig)

\* the step is a statement of a driver outside the methods of a round
DriverStep ==
    called' = "driver" /\ UNCHANGED <<entry, test_config, round_start, engine, worker>>

\* the object's next state is r
Becomes(r) ==
    /\ pauli_accumulator' = r.acc
    /\ syndrome_ex_status' = r.status
    /\ current_syndrome_n_flag' = r.current
    /\ syndrome_n_flag_1st_subround' = r.first
    /\ syndrome_2nd_subround' = r.second
    /\ logical_error_counts' = r.counts
    /\ failure' = r.failure
    /\ faults' = r.nf
    /\ gate_faults' = r.gate_faults
    /\ ops' = r.ops
    /\ status_log' = r.status_log
    /\ meas_log' = r.meas_log
    /\ ngates' = r.ngates
    /\ resynced' = r.resynced

\* an assertion failure ends the program
After(r, next) == IF r.failure # "none" THEN "aborted" ELSE next

Rates == {0, 1}
RateIdx == 0..(NumRates - 1)

\* the arguments of the last engine call: the gate or method, its qubits,
\* its rate, and the draws it consumed
NoCall == [method |-> "none", qubit_idx1 |-> -1, qubit_idx2 |-> -1, p_err |-> 0,
           u |-> 1, dec |-> 0]

\* the lookup tables a protocol object can be constructed with
LookupTables == {"five_qubit_code_flag_min_wt_LUT", "five_qubit_code_no_flag_LUT"}

Table(name) ==
    IF name = "five_qubit_code_no_flag_LUT" THEN five_qubit_code_no_flag_LUT
    ELSE IF name = "five_qubit_code_flag_high_wt_LUT" THEN five_qubit_code_flag_high_wt_LUT
    ELSE five_qubit_code_flag_min_wt_LUT

\* the object of a worker of the distributed run as create_circuit and the
\* reset of the count of rate jj leave it
FreshWorker(counts, jj, total, matched, aligned) ==
    [acc |-> clear_pauli_accumulator, status |-> "IDLE",
     current |-> PyNone, first |-> PyNone, second |-> PyNone,
     counts |-> [counts EXCEPT ![jj] = PyInt(0)],
     failure |-> "none", nf |-> 0, gate_faults |-> 0, ops |-> <<>>,
     status_log |-> <<>>, meas_log |-> <<>>, ngates |-> 0,
     resynced |-> clear_pauli_accumulator, fired |-> <<>>,
     total |-> total, matched |-> matched, aligned |-> aligned]

\* the state after five_qubit_code_flag_protocol(...) is constructed
Constructed ==
    /\ worker = FreshWorker([r \in RateIdx |-> PyNone], 0, 0, TRUE, TRUE)
    /\ samples_per_point = MaxSamples
    /\ comm = NoComm
    /\ syndrome_lookup_table = "five_qubit_code_flag_min_wt_LUT"
    /\ source = 0 /\ complete_results = <<>>
    /\ test_config = NoTestConfig
    /\ call_args = NoCall /\ meas_outcome = -1 /\ replay_outcome = -1
    /\ replay_accumulator = clear_pauli_accumulator
    /\ error_model \in ErrorModels
    /\ pauli_accumulator = clear_pauli_accumulator
    /\ syndrome_ex_status = "IDLE"
    /\ current_syndrome_n_flag = PyNone
    /\ syndrome_n_flag_1st_subround = PyNone
    /\ syndrome_2nd_subround = PyNone
    /\ logical_error_counts = [r \in RateIdx |-> PyNone]
    /\ batch_size = 0 /\ j = 0 /\ i = 0
    /\ outbox = <<>>
    /\ results_per_batch_per_p_phys = <<>>
    /\ failure = "none"
    /\ faults = 0 /\ gate_faults = 0 /\ ops = <<>> /\ status_log = <<>> /\ meas_log = <<>>
    /\ ngates = 0 /\ resynced = clear_pauli_accumulator
    /\ called = "__init__" /\ entry = Snapshot /\ round_start = Snapshot /\ ncalls = 0

\* a process about to run p_phys_sweep_simulation or p_phys_sweep_simulation_mpi
Init ==
    /\ Constructed
    /\ p_phys \in [RateIdx -> Rates]
    /\ \/ driver = "p_phys_sweep_simulation" /\ num_cores = 1 /\ my_rank = 0
       \/ /\ driver = "p_phys_sweep_simulation_mpi"
          /\ num_cores \in 1..MaxCores
          /\ my_rank \in 0..(num_cores - 1)
    /\ pc = "start"

\* ------------------------------------------------------------------------
\* The sampling drivers
\* ------------------------------------------------------------------------
SingleDriver == driver = "p_phys_sweep_simulation"

\* range(samples_per_point) or range(batch_size)
Rounds == IF SingleDriver THEN samples_per_point ELSE batch_size

\* Mutation of BatchOf: the remainder goes to the last rank
BatchOfLastRank(samples, cores, rank) ==
    (samples \div cores) + (IF rank = cores - 1 THEN samples % cores ELSE 0)

\* the batch of a rank: samples_per_point // num_cores, and one more below
\* the remainder
BatchOf(samples, cores, rank) ==
    LET remainder == samples % cores
    IN  (samples \div cores) + (IF rank < remainder THEN 1 ELSE 0)

\* p_phys_sweep_simulation_mpi: the batch of this rank
StartDriver ==
    /\ pc = "start"
    /\ batch_size' = IF SingleDriver THEN batch_size
                     ELSE BatchOf(samples_per_point, num_cores, my_rank)
    /\ j' = 0
    /\ pc' = "rate"
    /\ DriverStep
    /\ UNCHANGED <<inputs, object, i, mpi, ncalls>>

\* Mutation of StartRate: create_circuit() is left out
StartRateKeepingCircuit ==
    /\ pc = "rate" /\ j < NumRates
    /\ logical_error_counts' = [logical_error_counts EXCEPT ![j] = PyInt(0)]
    /\ i' = 0
    /\ pc' = "round"
    /\ DriverStep
    /\ UNCHANGED <<inputs, pauli_accumulator, syndrome_ex_status, current_syndrome_n_flag,
                   syndrome_n_flag_1st_subround, syndrome_2nd_subround, failure,
                   faults, gate_faults, ops, status_log, meas_log, ngates, resynced,
                   batch_size, j, mpi, ncalls>>

\* for j in range(len(p_phys)): logical_error_counts[j] = 0; create_circuit()
StartRate ==
    /\ pc = "rate" /\ j < NumRates
    /\ logical_error_counts' = [logical_error_counts EXCEPT ![j] = PyInt(0)]
    /\ pauli_accumulator' = clear_pauli_accumulator
    /\ i' = 0
    /\ pc' = "round"
    /\ DriverStep
    /\ UNCHANGED <<inputs, syndrome_ex_status, current_syndrome_n_flag,
                   syndrome_n_flag_1st_subround, syndrome_2nd_subround, failure,
                   faults, gate_faults, ops, status_log, meas_log, ngates, resynced,
                   batch_size, j, mpi, ncalls>>

\* self.init_state(self.p_phys[j]) of round i
InitState ==
    /\ pc = "round" /\ i < Rounds
    /\ \E r \in init_state([Self EXCEPT !.ops = <<>>], p_phys[j], error_model) : Becomes(r)
    /\ pc' = "extract"
    /\ Calls("init_state")
    /\ UNCHANGED <<inputs, batch_size, j, i, mpi, ncalls>>

\* self.syndrome_extraction(p_err=self.p_phys[j])
SyndromeExtraction ==
    /\ pc = "extract"
    /\ \E r \in syndrome_extraction(Self, NoTestConfig, p_phys[j], error_model) :
          /\ Becomes(r)
          /\ pc' = After(r, "decode")
    /\ Calls("syndrome_extraction")
    /\ UNCHANGED <<inputs, batch_size, j, i, mpi, ncalls>>

\* self.syndrome_decoding()
SyndromeDecoding ==
    /\ pc = "decode"
    /\ Becomes(syndrome_decoding(Self, Table(syndrome_lookup_table)))
    /\ pc' = "track"
    /\ Calls("syndrome_decoding")
    /\ UNCHANGED <<inputs, batch_size, j, i, mpi, ncalls>>

\* self.logical_error_tracking(j)
LogicalErrorTracking ==
    /\ pc = "track"
    /\ \E r \in logical_error_tracking(Self, j, error_model, Table(syndrome_lookup_table)) :
          /\ Becomes(r)
          /\ pc' = After(r, "cleanup")
    /\ Calls("logical_error_tracking")
    /\ UNCHANGED <<inputs, batch_size, j, i, mpi, ncalls>>

\* self.cleanup(), after which the loop moves to round i + 1
Cleanup ==
    /\ pc = "cleanup"
    /\ Becomes(cleanup(Self))
    /\ i' = i + 1
    /\ pc' = "round"
    /\ Calls("cleanup")
    /\ UNCHANGED <<inputs, batch_size, j, mpi, ncalls>>

local_result_dict ==
    [rank |-> my_rank, p_phys |-> p_phys[j], batch_size |-> batch_size,
     logical_error_counts |-> logical_error_counts[j].num]

\* "rank_" + str(k) + "_p_phys_idx_" + str(j)
ResultKey(k, jj) == "rank_" \o ToString(k) \o "_p_phys_idx_" \o ToString(jj)

\* the rounds of rate j are over; the MPI driver sends or stores its result
EndRate ==
    /\ pc = "round" /\ i = Rounds
    /\ IF SingleDriver THEN UNCHANGED mpi
       ELSE IF my_rank > 0
            THEN /\ outbox' = Append(outbox, local_result_dict)
                 /\ UNCHANGED <<source, results_per_batch_per_p_phys, complete_results>>
            ELSE /\ results_per_batch_per_p_phys' =
                        (ResultKey(my_rank, j) :> local_result_dict)
                            @@ results_per_batch_per_p_phys
                 /\ UNCHANGED <<source, outbox, complete_results>>
    /\ j' = j + 1
    /\ pc' = "rate"
    /\ DriverStep
    /\ UNCHANGED <<inputs, object, batch_size, i, ncalls>>

\* the sweep is over; rank 0 of the MPI driver goes on to the gather, with
\* for k in range(1, num_cores): for j in range(len(p_phys))
FinishSweep ==
    /\ pc = "rate" /\ j = NumRates
    /\ IF ~SingleDriver /\ my_rank = 0
       THEN pc' = "gather" /\ source' = 1 /\ j' = 0
       ELSE pc' = "done" /\ UNCHANGED <<source, j>>
    /\ DriverStep
    /\ UNCHANGED <<inputs, object, batch_size, i, outbox, results_per_batch_per_p_phys,
                   complete_results, ncalls>>

\* the dicts rank kk can have sent for rate jj: it ran the same script with
\* the same arguments, and counted at most one logical error per round, none
\* at rate 0
Sent(kk, jj) ==
    LET batch == BatchOf(samples_per_point, num_cores, kk)
    IN  {[rank |-> kk, p_phys |-> p_phys[jj], batch_size |-> batch,
          logical_error_counts |-> c]
         : c \in 0..(IF p_phys[jj] > 0 THEN batch ELSE 0)}

\* Mutation of Recv: one message is received from each rank, whatever the
\* number of rates
RecvOncePerRank ==
    /\ pc = "gather" /\ source < num_cores
    /\ \E msg \in Sent(source, j) :
          results_per_batch_per_p_phys' =
              (ResultKey(source, j) :> msg) @@ results_per_batch_per_p_phys
    /\ j' = 0 /\ source' = source + 1
    /\ DriverStep
    /\ UNCHANGED <<inputs, object, batch_size, i, pc, outbox, complete_results, ncalls>>

\* results_per_batch_per_p_phys[...] = comm.recv(source=k, tag=1000+k)
Recv ==
    /\ pc = "gather" /\ source < num_cores
    /\ \E msg \in Sent(source, j) :
          results_per_batch_per_p_phys' =
              (ResultKey(source, j) :> msg) @@ results_per_batch_per_p_phys
    /\ IF j + 1 < NumRates
       THEN j' = j + 1 /\ UNCHANGED source
       ELSE j' = 0 /\ source' = source + 1
    /\ DriverStep
    /\ UNCHANGED <<inputs, object, batch_size, i, pc, outbox, complete_results, ncalls>>

\* str(p) of a rate
RateStr(p) == ToString(p)

\* the keys of results_per_batch_per_p_phys in the order they were inserted:
\* those of rank 0 during its sweep, then rank by rank as received
InsertionOrder(cores) ==
    [n \in 1..(cores * NumRates) |-> ResultKey((n - 1) \div NumRates, (n - 1) % NumRates)]

\* Mutation of AddResult: a rate seen before is overwritten, not added to
AddResultOverwriting(complete, result) ==
    [((RateStr(result.p_phys) :> result.logical_error_counts) @@ complete)
        EXCEPT !["total_samples"] = @ + result.batch_size]

\* Mutation of AddResult: the batch size is added only with the first result
\* of a rate
AddResultSamplesOncePerRate(complete, result) ==
    LET key == RateStr(result.p_phys)
    IN  IF key \in DOMAIN complete
        THEN [complete EXCEPT ![key] = @ + result.logical_error_counts]
        ELSE [((key :> result.logical_error_counts) @@ complete)
                 EXCEPT !["total_samples"] = @ + result.batch_size]

\* one pass of the loop over results_per_batch_per_p_phys
AddResult(complete, result) ==
    LET key == RateStr(result.p_phys)
        added == IF key \in DOMAIN complete
                 THEN [complete EXCEPT ![key] = @ + result.logical_error_counts]
                 ELSE (key :> result.logical_error_counts) @@ complete
    IN  [added EXCEPT !["total_samples"] = @ + result.batch_size]

RECURSIVE AddResults(_, _, _)
AddResults(complete, results, keys) ==
    IF keys = <<>> THEN complete
    ELSE AddResults(AddResult(complete, results[Head(keys)]), results, Tail(keys))

\* every message is in: complete_results is computed
Gather ==
    /\ pc = "gather" /\ source >= num_cores
    /\ complete_results' = AddResults(("total_samples" :> 0), results_per_batch_per_p_phys,
                                      InsertionOrder(num_cores))
    /\ pc' = "done"
    /\ DriverStep
    /\ UNCHANGED <<inputs, object, batch_size, j, i, source, outbox,
                   results_per_batch_per_p_phys, ncalls>>

Next ==
    \/ StartDriver
    \/ StartRate
    \/ InitState
    \/ SyndromeExtraction
    \/ SyndromeDecoding
    \/ LogicalErrorTracking
    \/ Cleanup
    \/ EndRate
    \/ FinishSweep
    \/ Recv
    \/ Gather

Spec == Init /\ [][Next]_vars

\* ------------------------------------------------------------------------
\* A caller that drives the object directly, method by method
\* ------------------------------------------------------------------------
InitApi ==
    /\ Constructed
    /\ p_phys = [r \in RateIdx |-> 0]
    /\ driver = "none" /\ num_cores = 1 /\ my_rank = 0
    /\ pc = "api"

\* update_syn_ex_status() called directly: indexing [0][1] needs a 2-d
\* current_syndrome_n_flag
call_update_syn_ex_status(self) ==
    IF self.current.kind = "None" THEN [self EXCEPT !.failure = "TypeError"]
    ELSE IF self.current.kind # "ndarray2" THEN [self EXCEPT !.failure = "IndexError"]
    ELSE update_syn_ex_status(self)

\* a direct call of method m, given tc, leaves the object as r
DirectWith(m, r, tc) ==
    /\ Becomes(r)
    /\ pc' = After(r, "api")
    /\ ncalls' = ncalls + 1
    /\ CallsWith(m, tc)
    /\ UNCHANGED <<inputs, batch_size, j, i, mpi>>

\* a direct call of method m leaves the object as r
Direct(m, r) == DirectWith(m, r, NoTestConfig)

MayCall == pc = "api" /\ ncalls < MaxCalls

ApiSelf == [Self EXCEPT !.ops = <<>>]

CallInitState ==
    /\ MayCall
    /\ \E p \in Rates : \E r \in init_state(ApiSelf, p, error_model) :
          Direct("init_state", r)

\* the values of test_config a caller passes: None, a directed X on data
\* qubit 1 at location 0, and a directed Z on data qubit 2 at location 3,
\* the gate cnot(data_qubits[1], anc_qubits[0])
TestConfigs ==
    {NoTestConfig,
     error_spec(TRUE, 0, data_qubits[0], data_qubits[1], 1, 0),
     error_spec(TRUE, 3, data_qubits[1], anc_qubits[0], 3, 0)}

CallSyndromeExtraction ==
    /\ MayCall
    /\ \E p \in Rates, tc \in TestConfigs :
          \E r \in syndrome_extraction(ApiSelf, tc, p, error_model) :
              DirectWith("syndrome_extraction", r, tc)

CallMeasureFullSyndromeWithoutFlags ==
    /\ MayCall
    /\ \E p \in Rates : \E r \in measure_full_syndrome_without_flags(ApiSelf, NoTestConfig, p, error_model) :
          Direct("measure_full_syndrome_without_flags", r)

CallUpdateSynExStatus ==
    /\ MayCall
    /\ Direct("update_syn_ex_status", call_update_syn_ex_status(ApiSelf))

CallSyndromeDecoding ==
    /\ MayCall
    /\ Direct("syndrome_decoding", syndrome_decoding(ApiSelf, Table(syndrome_lookup_table)))

CallCleanup ==
    /\ MayCall
    /\ Direct("cleanup", cleanup(ApiSelf))

NextApi ==
    \/ CallInitState
    \/ CallSyndromeExtraction
    \/ CallMeasureFullSyndromeWithoutFlags
    \/ CallUpdateSynExStatus
    \/ CallSyndromeDecoding
    \/ CallCleanup

SpecApi == InitApi /\ [][NextApi]_vars

\* ------------------------------------------------------------------------
\* Properties
\* ------------------------------------------------------------------------
\* the last step called method m and the call returned normally
Returned(m) == called = m /\ failure = "none"

\* the last syndrome_extraction returned normally: the one of the round, or
\* the one inside logical_error_tracking
ExtractionReturned ==
    Returned("syndrome_extraction") \/ Returned("logical_error_tracking")

\* the measurements of the last syndrome_extraction made with a flag
WithFlagLog == SelectSeq(meas_log, LAMBDA e : e[1] = "with_flag")
WithoutFlagLog == SelectSeq(meas_log, LAMBDA e : e[1] = "without_flag")

\* the n-th measurement was made with a flag and raised the flag or returned
\* a nonzero syndrome bit
TriggerAt(n) ==
    /\ n <= Len(meas_log)
    /\ meas_log[n][1] = "with_flag"
    /\ (meas_log[n][3] = 1 \/ meas_log[n][4] = 1)

\* C1: every normal return of syndrome_extraction leaves the status IDLE,
\* IDLE being the last status it assigned, whichever of the five exits it
\* took (remeasurement after generator 1, 2, 3 or 4, or all generators
\* clear), and the status is IDLE after cleanup and at every round boundary
\* of the drivers.
C1_IdleOnReturn ==
    /\ ExtractionReturned =>
          /\ syndrome_ex_status = "IDLE"
          /\ status_log # <<>>
          /\ status_log[Len(status_log)] = "IDLE"
          /\ \/ Len(WithoutFlagLog) = 4 /\ Len(WithFlagLog) \in 1..4
             \/ Len(WithoutFlagLog) = 0 /\ Len(WithFlagLog) = 4
    /\ Returned("cleanup") => syndrome_ex_status = "IDLE"
    /\ pc = "round" => syndrome_ex_status = "IDLE"

\* C1 witness: the round's extraction returned through the remeasurement
\* triggered at generator 3, in a round that is not the first
C1_Witness ==
    /\ Returned("syndrome_extraction")
    /\ Len(WithFlagLog) = 3 /\ Len(WithoutFlagLog) = 4
    /\ syndrome_ex_status = "IDLE"
    /\ i > 0

ExpectedStatus(syndrome, flag) ==
    IF flag = 1 THEN "DET_RAISED_FLAG"
    ELSE IF syndrome = 1 THEN "DET_NONZERO_SYNDROME"
    ELSE "DET_UNRAISED_FLAG_AND_ZERO_SYNDROME"

\* C2: the status assigned right after the with-flag measurement of each
\* generator g is DET_RAISED_FLAG if the flag is 1 (whatever the syndrome
\* bit), else DET_NONZERO_SYNDROME if the syndrome bit is 1, else
\* DET_UNRAISED_FLAG_AND_ZERO_SYNDROME.  It is the 2g-th assignment of the
\* extraction (after MEAS_GEN_WITH_FLAG before each measurement).
C2_StatusFromPair ==
    ExtractionReturned =>
        \A g \in 1..Len(WithFlagLog) :
            /\ Len(status_log) >= 2 * g
            /\ status_log[2 * g - 1] = "MEAS_GEN_WITH_FLAG"
            /\ status_log[2 * g] = ExpectedStatus(WithFlagLog[g][3], WithFlagLog[g][4])

\* C2 witness: a measurement returned syndrome 1 and flag 1, and the status
\* became DET_RAISED_FLAG
C2_Witness ==
    /\ Returned("syndrome_extraction")
    /\ \E g \in 1..Len(WithFlagLog) :
          /\ WithFlagLog[g][3] = 1 /\ WithFlagLog[g][4] = 1
          /\ status_log[2 * g] = "DET_RAISED_FLAG"

\* C3: if the with-flag measurement of generator g raises the flag or returns
\* a nonzero syndrome bit, then on return the measurements made are
\* generators 1..g with a flag followed by generators 1..4 without, in that
\* order and nothing else; the statuses assigned end with
\* MEAS_GEN_WITHOUT_FLAG, IDLE; the 1st-subround record is the key of 4
\* pairs, the g measured ones followed by 4-g pairs (None, None); the
\* 2nd-subround record is the key of the 4 remeasured syndrome bits.
C3_TriggerRemeasuresAll ==
    ExtractionReturned =>
        \A g \in 1..4 : TriggerAt(g) =>
            /\ Len(meas_log) = g + 4
            /\ \A n \in 1..g : meas_log[n][1] = "with_flag" /\ meas_log[n][2] = n
            /\ \A n \in 1..4 : meas_log[g + n][1] = "without_flag" /\ meas_log[g + n][2] = n
            /\ Len(status_log) = 2 * g + 2
            /\ status_log[2 * g + 1] = "MEAS_GEN_WITHOUT_FLAG"
            /\ status_log[2 * g + 2] = "IDLE"
            /\ syndrome_n_flag_1st_subround =
                  PyStr(array2string_2d([n \in 1..4 |->
                            IF n <= g THEN <<meas_log[n][3], meas_log[n][4]>>
                            ELSE <<-1, -1>>]))
            /\ syndrome_2nd_subround =
                  PyStr(array2string_1d([n \in 1..4 |-> meas_log[g + n][3]]))

\* C3 witness: generator 2 raised its flag with a zero syndrome bit and the
\* remeasurement found a nonzero syndrome
C3_Witness ==
    /\ Returned("syndrome_extraction")
    /\ TriggerAt(2)
    /\ meas_log[2][3] = 0 /\ meas_log[2][4] = 1
    /\ Len(meas_log) = 6
    /\ \E n \in 3..6 : meas_log[n][3] = 1

\* every with-flag measurement of the last extraction returned (0, 0)
AllPairsClear ==
    \A n \in 1..Len(meas_log) :
        meas_log[n][1] = "with_flag" => (meas_log[n][3] = 0 /\ meas_log[n][4] = 0)

\* C4: if every with-flag measurement returns syndrome 0 and flag 0, the
\* extraction measures generators 1, 2, 3, 4 with a flag in that order and
\* nothing without, passes through DET_UNRAISED_FLAG_AND_ZERO_SYNDROME four
\* times, and returns IDLE with the 1st-subround record the key of four
\* (0, 0) pairs and the 2nd-subround record None.
C4_AllClearPath ==
    (ExtractionReturned /\ AllPairsClear) =>
        /\ meas_log = [n \in 1..4 |-> <<"with_flag", n, 0, 0>>]
        /\ status_log = <<"MEAS_GEN_WITH_FLAG", "DET_UNRAISED_FLAG_AND_ZERO_SYNDROME",
                          "MEAS_GEN_WITH_FLAG", "DET_UNRAISED_FLAG_AND_ZERO_SYNDROME",
                          "MEAS_GEN_WITH_FLAG", "DET_UNRAISED_FLAG_AND_ZERO_SYNDROME",
                          "MEAS_GEN_WITH_FLAG", "DET_UNRAISED_FLAG_AND_ZERO_SYNDROME",
                          "IDLE">>
        /\ syndrome_ex_status = "IDLE"
        /\ syndrome_n_flag_1st_subround = PyStr("[[0 0] [0 0] [0 0] [0 0]]")
        /\ syndrome_2nd_subround = PyNone

\* C4 witness: an extraction at a positive rate in which a fault fired and
\* all four pairs were (0, 0)
C4_Witness ==
    /\ Returned("syndrome_extraction")
    /\ AllPairsClear
    /\ faults > entry.nf
    /\ syndrome_2nd_subround = PyNone

\* the call of the last step changed nothing of the object and ran no gate
Untouched ==
    /\ ngates = 0
    /\ pauli_accumulator = entry.acc
    /\ syndrome_ex_status = entry.status
    /\ current_syndrome_n_flag = entry.current
    /\ syndrome_n_flag_1st_subround = entry.first
    /\ syndrome_2nd_subround = entry.second

\* C5: syndrome_extraction called while the status is not IDLE, and
\* measure_full_syndrome_without_flags called while the status is not
\* MEAS_GEN_WITHOUT_FLAG, end with their assertion's failure, having run no
\* gate and changed neither the accumulator, the records nor the status.
C5_FailFast ==
    /\ (called = "syndrome_extraction" /\ entry.status # "IDLE") =>
          (failure = AssertIdle /\ pc = "aborted" /\ Untouched)
    /\ (called = "measure_full_syndrome_without_flags"
            /\ entry.status # "MEAS_GEN_WITHOUT_FLAG") =>
          (failure = AssertWithoutFlag /\ pc = "aborted" /\ Untouched)

\* C5 witness: syndrome_extraction called in status
\* DET_UNRAISED_FLAG_AND_ZERO_SYNDROME on a non-zero accumulator
C5_Witness ==
    /\ called = "syndrome_extraction"
    /\ entry.status = "DET_UNRAISED_FLAG_AND_ZERO_SYNDROME"
    /\ failure = AssertIdle
    /\ pauli_accumulator # clear_pauli_accumulator

\* the methods of one round of rate index jj, in order
RoundOps(jj) ==
    << <<"init_state", p_phys[jj]>>, <<"syndrome_extraction", p_phys[jj]>>,
       <<"syndrome_decoding">>, <<"logical_error_tracking", jj>>,
       <<"syndrome_extraction", -1>>, <<"syndrome_decoding">>,
       <<"commutation">>, <<"cleanup">> >>

\* the round in progress has entered the first n methods of RoundOps and
\* nothing else
RoundSoFar(n) == ops = SubSeq(RoundOps(j), 1, n)

\* a round in progress is never stuck and never ended by an assertion
RoundRuns ==
    /\ pc # "aborted" /\ failure = "none"
    /\ pc = "extract" => syndrome_extraction(Self, NoTestConfig, p_phys[j], error_model) # {}
    /\ pc = "decode" => ENABLED SyndromeDecoding
    /\ pc = "track" =>
          logical_error_tracking(Self, j, error_model, Table(syndrome_lookup_table)) # {}
    /\ pc = "cleanup" => ENABLED Cleanup

\* C6: in both drivers a round enters, in this order and once each,
\* init_state and syndrome_extraction at the rate of the sweep,
\* syndrome_decoding, then inside logical_error_tracking a second
\* syndrome_extraction and syndrome_decoding during which no fault fires,
\* then the logical-error check, then cleanup; a round in progress can always
\* take its next step, and the driver is at a round boundary only with the
\* round before it complete.
C6_RoundSteps ==
    /\ pc = "extract" => RoundSoFar(1)
    /\ pc = "decode" => RoundSoFar(2)
    /\ pc = "track" => RoundSoFar(3)
    /\ pc = "cleanup" => (RoundSoFar(7) /\ faults = entry.nf)
    /\ (pc = "round" /\ i > 0) => RoundSoFar(8)
    /\ RoundRuns

\* C6 witness: the last round of a batch of the MPI driver is complete, a
\* fault having fired in the run
C6_Witness ==
    /\ driver = "p_phys_sweep_simulation_mpi"
    /\ pc = "round" /\ i = Rounds /\ i > 1
    /\ RoundSoFar(8)
    /\ faults = 1

\* x.lz + z.lx mod 2 of the data-qubit bits of acc with row of logical_ops
Symplectic(acc, row) ==
    LET k == 5
        N == 7
        x(n) == acc[n]
        z(n) == acc[N + n]
        lx(n) == logical_ops[row][n + 1]
        lz(n) == logical_ops[row][k + n + 1]
    IN  (x(0) * lz(0) + x(1) * lz(1) + x(2) * lz(2) + x(3) * lz(3) + x(4) * lz(4)
         + z(0) * lx(0) + z(1) * lx(1) + z(2) * lx(2) + z(3) * lx(3) + z(4) * lx(4)) % 2

LogicalErrorFound == \E row \in 1..2 : Symplectic(resynced, row) # 0

Counted == logical_error_counts[j].num = entry.counts[j].num + 1

\* C7: logical_error_tracking counts a logical error exactly when the
\* data-qubit bits of the resynchronized accumulator have a nonzero
\* symplectic product with a row of logical_ops.
C7_CountedIffAnticommutes ==
    Returned("logical_error_tracking") => (Counted <=> LogicalErrorFound)

\* C7 witness: a logical error counted because of the second row only
C7_Witness ==
    /\ Returned("logical_error_tracking")
    /\ Counted
    /\ Symplectic(resynced, 1) = 0 /\ Symplectic(resynced, 2) = 1

\* C8: when logical_error_tracking finds a logical error, the count of the
\* current rate grows by 1, no other count changes and the accumulator is
\* all-zero; when it finds none, no count changes and every bit of the
\* accumulator is the one from before the extra cycle.
C8_CountOrRestore ==
    Returned("logical_error_tracking") =>
        IF LogicalErrorFound
        THEN /\ logical_error_counts =
                    [entry.counts EXCEPT ![j] = PyInt(entry.counts[j].num + 1)]
             /\ pauli_accumulator = clear_pauli_accumulator
        ELSE /\ logical_error_counts = entry.counts
             /\ pauli_accumulator = entry.acc

\* C8 witness: no logical error, and the accumulator restored differs from
\* the resynchronized one in a data bit
C8_Witness ==
    /\ Returned("logical_error_tracking")
    /\ ~LogicalErrorFound
    /\ \E n \in 0..4 : pauli_accumulator[n] # resynced[n]

NoiseFree == \A r \in RateIdx : p_phys[r] = 0

\* C9: when every rate of the sweep is 0, the count of every rate is 0 once
\* set, every extraction takes the all-clear path and the accumulator is
\* all-zero at every round boundary.
C9_CleanRounds ==
    NoiseFree =>
        /\ \A r \in RateIdx : logical_error_counts[r] \in {PyNone, PyInt(0)}
        /\ ExtractionReturned => meas_log = [n \in 1..4 |-> <<"with_flag", n, 0, 0>>]
        /\ pc = "round" => pauli_accumulator = clear_pauli_accumulator

\* C9 witness: the sweep at rate 0 is over
C9_Witness ==
    /\ NoiseFree
    /\ pc = "done"
    /\ \A r \in RateIdx : logical_error_counts[r] = PyInt(0)

\* both keys the decoder was called with are in the table
KeysFound ==
    /\ entry.first.kind = "str" /\ entry.second.kind = "str"
    /\ entry.first.str \in DOMAIN five_qubit_code_flag_min_wt_LUT
    /\ entry.second.str \in DOMAIN five_qubit_code_flag_min_wt_LUT[entry.first.str]

StoredCorrection == five_qubit_code_flag_min_wt_LUT[entry.first.str][entry.second.str]

\* C10: when both keys are found, syndrome_decoding adds (mod 2) the X part
\* of the stored correction to bits 0..4 and its Z part to bits 7..11 of the
\* accumulator, and leaves the ancilla and flag bits 5, 6, 12, 13 as they
\* were.
C10_CorrectionOnDataBits ==
    (Returned("syndrome_decoding") /\ KeysFound) =>
        /\ \A n \in 0..4 :
              /\ pauli_accumulator[n] = (entry.acc[n] + StoredCorrection[n + 1]) % 2
              /\ pauli_accumulator[7 + n] = (entry.acc[7 + n] + StoredCorrection[5 + n + 1]) % 2
        /\ \A q \in {5, 6, 12, 13} : pauli_accumulator[q] = entry.acc[q]

\* C10 witness: a correction with an X and a Z part applied to an
\* accumulator it does not cancel
C10_Witness ==
    /\ Returned("syndrome_decoding")
    /\ KeysFound
    /\ \E n \in 1..5 : StoredCorrection[n] = 1
    /\ \E n \in 6..10 : StoredCorrection[n] = 1
    /\ pauli_accumulator # clear_pauli_accumulator

\* ------------------------------------------------------------------------
\* The decoder on its own: a caller sets the table, the two records and the
\* accumulator, and calls syndrome_decoding
\* ------------------------------------------------------------------------
\* the accumulator with exactly the bits at the positions in at
Acc(at) == XorAt(clear_pauli_accumulator, at)

DecodeFirst ==
    {PyNone,
     PyStr("[0 0 0 1]"),
     PyStr("[[0 0] [0 0] [0 0] [1 0]]"),
     PyStr("[[0 1] [None None] [None None] [None None]]"),
     PyStr("[[0 0] [0 0] [0 0] [0 1]]"),
     PyStr("[[0 0] [0 0] [0 0] [0 0]]")}

DecodeSecond ==
    {PyNone, PyStr("[0 0 0 1]"), PyStr("[0 1 0 0]"), PyStr("[1 0 1 1]"), PyStr("[0 0 0 0]")}

DecodeAccumulators ==
    {Acc(<<>>), Acc(<<0>>), Acc(<<3, 9>>), Acc(<<1, 5, 13>>), Acc(<<3, 10, 11>>)}

InitDecode ==
    /\ samples_per_point = MaxSamples
    /\ comm = NoComm
    /\ error_model \in ErrorModels
    /\ syndrome_lookup_table \in LookupTables
    /\ p_phys = [r \in RateIdx |-> 0]
    /\ driver = "none" /\ num_cores = 1 /\ my_rank = 0
    /\ pauli_accumulator \in DecodeAccumulators
    /\ syndrome_ex_status = "IDLE"
    /\ current_syndrome_n_flag = PyNone
    /\ syndrome_n_flag_1st_subround \in DecodeFirst
    /\ syndrome_2nd_subround \in DecodeSecond
    /\ logical_error_counts = [r \in RateIdx |-> PyNone]
    /\ batch_size = 0 /\ j = 0 /\ i = 0 /\ source = 0
    /\ outbox = <<>>
    /\ results_per_batch_per_p_phys = <<>>
    /\ complete_results = <<>>
    /\ failure = "none"
    /\ faults = 0 /\ gate_faults = 0 /\ ops = <<>> /\ status_log = <<>> /\ meas_log = <<>>
    /\ ngates = 0 /\ resynced = clear_pauli_accumulator
    /\ called = "__init__" /\ entry = Snapshot /\ round_start = Snapshot
    /\ worker = FreshWorker([r \in RateIdx |-> PyNone], 0, 0, TRUE, TRUE)
    /\ test_config = NoTestConfig
    /\ ncalls = 0
    /\ call_args = NoCall /\ meas_outcome = -1 /\ replay_outcome = -1
    /\ replay_accumulator = clear_pauli_accumulator
    /\ pc = "api"

NextDecode == CallSyndromeDecoding

SpecDecode == InitDecode /\ [][NextDecode]_vars

\* the 1st-subround record the decoder was called with is not a key of the
\* outer table
OuterMiss ==
    ~(entry.first.kind = "str" /\ entry.first.str \in DOMAIN Table(syndrome_lookup_table))

\* it is a key of a flag table, and the 2nd-subround record is absent or is
\* not a key of the inner table
InnerMiss ==
    /\ syndrome_lookup_table = "five_qubit_code_flag_min_wt_LUT"
    /\ ~OuterMiss
    /\ ~(entry.second.kind = "str"
         /\ entry.second.str \in DOMAIN five_qubit_code_flag_min_wt_LUT[entry.first.str])

\* C11: a lookup miss is a no-op.  When the 1st-subround key is not in the
\* outer table, or the 2nd-subround key is not in the inner table (an absent
\* 2nd-subround record included), syndrome_decoding leaves the whole
\* accumulator, and every other field, as it found it and raises no error.
C11_MissIsNoOp ==
    (called = "syndrome_decoding" /\ (OuterMiss \/ InnerMiss)) =>
        /\ failure = "none"
        /\ pauli_accumulator = entry.acc
        /\ Snapshot = entry

\* C11 witness: the outer key is found, the 2nd-subround record is absent,
\* and the accumulator carries an error that stays
C11_Witness ==
    /\ called = "syndrome_decoding"
    /\ InnerMiss
    /\ entry.second = PyNone
    /\ pauli_accumulator = Acc(<<3, 9>>)

\* C12: with the no-flag table, 1st-subround key '[0 0 0 1]' and no
\* 2nd-subround record, the outer value is itself the correction, and
\* decoding an accumulator that carries exactly a single X on data qubit 1
\* (bit 0) yields the all-zero accumulator.
C12_TerminalCorrection ==
    (/\ called = "syndrome_decoding"
     /\ syndrome_lookup_table = "five_qubit_code_no_flag_LUT"
     /\ entry.first = PyStr("[0 0 0 1]")
     /\ entry.second = PyNone
     /\ entry.acc = Acc(<<0>>))
    => pauli_accumulator = clear_pauli_accumulator

\* ------------------------------------------------------------------------
\* The engine on its own: a caller prepares, applies gates and measures on a
\* qec_flag_base_ckt_class object built as the protocol builds it
\* ------------------------------------------------------------------------
\* the qubits and the accumulators the caller starts from
EngineQubits == {data_qubits[0], anc_qubits[0], flag_qubits[0]}

EngineBits == EngineQubits \cup {q + num_all_qubits : q \in EngineQubits}

EngineAccumulators == {Acc(<<>>)} \cup {Acc(<<n>>) : n \in EngineBits}

\* the second draw of a fault is dec / DrawGrid, dec in SecondDraws: the
\* bounds of the 15 intervals and the middle of each
DrawGrid == 30

SecondDraws == 0..(DrawGrid - 1)

\* the branch of two_qubit_gate_depol_error the second draw takes, numbered
\* from 0 in the order of the if / elif ladder; -1 is the final else
DepolBranch(dec) ==
    IF dec * 15 < DrawGrid THEN 0
    ELSE IF dec * 15 >= 1 * DrawGrid /\ dec * 15 < 2 * DrawGrid THEN 1
    ELSE IF dec * 15 >= 2 * DrawGrid /\ dec * 15 < 3 * DrawGrid THEN 2
    ELSE IF dec * 15 >= 3 * DrawGrid /\ dec * 15 < 4 * DrawGrid THEN 3
    ELSE IF dec * 15 >= 4 * DrawGrid /\ dec * 15 < 5 * DrawGrid THEN 4
    ELSE IF dec * 15 >= 5 * DrawGrid /\ dec * 15 < 6 * DrawGrid THEN 5
    ELSE IF dec * 15 >= 6 * DrawGrid /\ dec * 15 < 7 * DrawGrid THEN 6
    ELSE IF dec * 15 >= 7 * DrawGrid /\ dec * 15 < 8 * DrawGrid THEN 7
    ELSE IF dec * 15 >= 8 * DrawGrid /\ dec * 15 < 9 * DrawGrid THEN 8
    ELSE IF dec * 15 >= 9 * DrawGrid /\ dec * 15 < 10 * DrawGrid THEN 9
    ELSE IF dec * 15 >= 10 * DrawGrid /\ dec * 15 < 11 * DrawGrid THEN 10
    ELSE IF dec * 15 >= 11 * DrawGrid /\ dec * 15 < 12 * DrawGrid THEN 11
    ELSE IF dec * 15 >= 12 * DrawGrid /\ dec * 15 < 13 * DrawGrid THEN 12
    ELSE IF dec * 15 >= 13 * DrawGrid /\ dec * 15 < 14 * DrawGrid THEN 13
    ELSE IF dec * 15 >= 14 * DrawGrid THEN 14
    ELSE -1

\* the intervals the second draw of a two-qubit fault is taken from:
\* IX, XZ, YX and ZZ
EngineDecs == {0, 6, 8, 14}

EngineGateDraws(nf, p_err) ==
    {<<1, 0>>} \cup (IF MayFire(nf, p_err) THEN {<<0, dec>> : dec \in EngineDecs} ELSE {})

\* draws for the second object: the same when the fault fires, else another
\* draw that does not fire either (0.0 at rate 0) and another second draw
ReplayU(u, p_err) == IF Fires(u, p_err) THEN u ELSE IF p_err > 0 THEN 1 ELSE 0
ReplayDec(u, dec, p_err, last) == IF Fires(u, p_err) THEN dec ELSE last - dec

InitEngine ==
    /\ samples_per_point = MaxSamples
    /\ comm = NoComm
    /\ error_model \in ErrorModels
    /\ syndrome_lookup_table = "five_qubit_code_flag_min_wt_LUT"
    /\ p_phys = [r \in RateIdx |-> 0]
    /\ driver = "none" /\ num_cores = 1 /\ my_rank = 0
    /\ pauli_accumulator \in EngineAccumulators
    /\ replay_accumulator = pauli_accumulator
    /\ syndrome_ex_status = "IDLE"
    /\ current_syndrome_n_flag = PyNone
    /\ syndrome_n_flag_1st_subround = PyNone
    /\ syndrome_2nd_subround = PyNone
    /\ logical_error_counts = [r \in RateIdx |-> PyNone]
    /\ batch_size = 0 /\ j = 0 /\ i = 0 /\ source = 0
    /\ outbox = <<>>
    /\ results_per_batch_per_p_phys = <<>>
    /\ complete_results = <<>>
    /\ failure = "none"
    /\ faults = 0 /\ gate_faults = 0 /\ ops = <<>> /\ status_log = <<>> /\ meas_log = <<>>
    /\ ngates = 0 /\ resynced = clear_pauli_accumulator
    /\ called = "__init__" /\ entry = Snapshot /\ round_start = Snapshot
    /\ worker = FreshWorker([r \in RateIdx |-> PyNone], 0, 0, TRUE, TRUE)
    /\ test_config = NoTestConfig
    /\ ncalls = 0
    /\ call_args = NoCall /\ meas_outcome = -1 /\ replay_outcome = -1
    /\ pc = "engine"

MayCallEngine == pc = "engine" /\ ncalls < MaxEngineCalls

\* the call method(qubit_idx1, qubit_idx2, p_err), which consumed the draws
\* u and dec against the scaled rate, leaves the two objects as acc and racc
\* and returns out and rout
EngineReturns(method, qubit_idx1, qubit_idx2, p_err, scaled, u, dec, acc, out, racc, rout) ==
    /\ pauli_accumulator' = acc
    /\ meas_outcome' = out
    /\ replay_accumulator' = racc
    /\ replay_outcome' = rout
    /\ call_args' = [method |-> method, qubit_idx1 |-> qubit_idx1, qubit_idx2 |-> qubit_idx2,
                     p_err |-> p_err, u |-> u, dec |-> dec]
    /\ faults' = Count(faults, u, scaled)
    /\ gate_faults' = IF method \in {"cnot", "xnot", "ynot", "cz"}
                      THEN Count(gate_faults, u, scaled) ELSE gate_faults
    /\ ops' = Append(ops, <<method, qubit_idx1, qubit_idx2, p_err>>)
    /\ called' = method
    /\ entry' = Snapshot
    /\ UNCHANGED <<round_start, worker>>
    /\ ncalls' = ncalls + 1
    /\ UNCHANGED <<inputs, syndrome_ex_status, current_syndrome_n_flag,
                   syndrome_n_flag_1st_subround, syndrome_2nd_subround,
                   logical_error_counts, failure, status_log, meas_log, ngates,
                   resynced, batch_size, j, i, pc, mpi, test_config>>

\* the preparation or reset named method, on qubit_idx
Prepare(method, acc, qubit_idx, u, p_err, model) ==
    IF method = "prepare_Z_basis" THEN prepare_Z_basis(acc, qubit_idx, u, p_err, model)
    ELSE IF method = "prepare_X_basis" THEN prepare_X_basis(acc, qubit_idx, u, p_err, model)
    ELSE IF method = "reset_ancilla" THEN reset_ancilla(acc, u, p_err, model)
    ELSE reset_flag(acc, u, p_err, model)

EnginePrepares(method, qubits) ==
    \E q \in qubits, p \in Rates :
          LET scaled == error_scale_factor_prep(error_model) * p
          IN  \E u \in FlipDraws(faults, scaled) :
                 EngineReturns(method, q, -1, p, scaled, u, 0,
                     Prepare(method, pauli_accumulator, q, u, p, error_model), -1,
                     Prepare(method, replay_accumulator, q, ReplayU(u, scaled), p, error_model),
                     -1)

EnginePrepareZ == MayCallEngine /\ EnginePrepares("prepare_Z_basis", EngineQubits)
EnginePrepareX == MayCallEngine /\ EnginePrepares("prepare_X_basis", EngineQubits)
EngineResetAncilla == MayCallEngine /\ EnginePrepares("reset_ancilla", {anc_qubits[0]})
EngineResetFlag == MayCallEngine /\ EnginePrepares("reset_flag", {flag_qubits[0]})

\* the draws <<u, dec>> of single_qubit_depol_error
HDraws(nf, p_err) ==
    {<<1, 0>>} \cup (IF MayFire(nf, p_err) THEN {<<0, dec>> : dec \in 0..2} ELSE {})

EngineH ==
    /\ MayCallEngine
    /\ \E q \in EngineQubits, p \in Rates :
          LET scaled == error_scale_factor_single_qubit_gate(error_model) * p
          IN  \E d \in HDraws(faults, scaled) :
                 EngineReturns("h", q, -1, p, scaled, d[1], d[2],
                     h(pauli_accumulator, q, d[1], d[2], p, NoTestConfig, 0, error_model), -1,
                     h(replay_accumulator, q, ReplayU(d[1], scaled),
                       ReplayDec(d[1], d[2], scaled, 2), p, NoTestConfig, 0, error_model), -1)

\* the two-qubit gate named method
Gate(method, acc, qubit_idx1, qubit_idx2, u, dec, p_err, model) ==
    IF method = "cnot" THEN cnot(acc, qubit_idx1, qubit_idx2, u, dec, p_err, NoTestConfig, 0, model)
    ELSE IF method = "xnot"
         THEN xnot(acc, qubit_idx1, qubit_idx2, u, dec, p_err, NoTestConfig, 0, model)
    ELSE IF method = "ynot"
         THEN ynot(acc, qubit_idx1, qubit_idx2, u, dec, p_err, NoTestConfig, 0, model)
    ELSE cz(acc, qubit_idx1, qubit_idx2, u, dec, p_err, NoTestConfig, 0, model)

EngineGate(method) ==
    \E q1 \in EngineQubits, q2 \in EngineQubits, p \in Rates :
          /\ q1 # q2
          /\ LET scaled == error_scale_factor_two_qubit_gate(error_model) * p
             IN  \E d \in EngineGateDraws(faults, scaled) :
                    EngineReturns(method, q1, q2, p, scaled, d[1], d[2],
                        Gate(method, pauli_accumulator, q1, q2, d[1], d[2], p, error_model), -1,
                        Gate(method, replay_accumulator, q1, q2, ReplayU(d[1], scaled),
                             ReplayDec(d[1], d[2], scaled, 14), p, error_model), -1)

EngineCnot == MayCallEngine /\ EngineGate("cnot")
EngineXnot == MayCallEngine /\ EngineGate("xnot")
EngineYnot == MayCallEngine /\ EngineGate("ynot")
EngineCz == MayCallEngine /\ EngineGate("cz")

Measure(method, acc, qubit_idx, u, p_err, model) ==
    IF method = "measure_Z_basis" THEN measure_Z_basis(acc, qubit_idx, u, p_err, model)
    ELSE measure_X_basis(acc, qubit_idx, u, p_err, model)

EngineMeasures(method) ==
    \E q \in EngineQubits, p \in Rates :
          LET scaled == error_scale_factor_meas(error_model) * p
          IN  \E u \in FlipDraws(faults, scaled) :
                 EngineReturns(method, q, -1, p, scaled, u, 0,
                     pauli_accumulator,
                     Measure(method, pauli_accumulator, q, u, p, error_model),
                     replay_accumulator,
                     Measure(method, replay_accumulator, q, ReplayU(u, scaled), p, error_model))

EngineMeasureZ == MayCallEngine /\ EngineMeasures("measure_Z_basis")
EngineMeasureX == MayCallEngine /\ EngineMeasures("measure_X_basis")

NextEngine ==
    \/ EnginePrepareZ
    \/ EnginePrepareX
    \/ EngineResetAncilla
    \/ EngineResetFlag
    \/ EngineH
    \/ EngineCnot
    \/ EngineXnot
    \/ EngineYnot
    \/ EngineCz
    \/ EngineMeasureZ
    \/ EngineMeasureX

SpecEngine == InitEngine /\ [][NextEngine]_vars

\* ------------------------------------------------------------------------
\* Properties of the engine
\* ------------------------------------------------------------------------
N == num_all_qubits

\* the rate the draw of the last engine call was compared with
ScaledRate ==
    (IF called \in {"cnot", "xnot", "ynot", "cz"}
     THEN error_scale_factor_two_qubit_gate(error_model)
     ELSE IF called = "h" THEN error_scale_factor_single_qubit_gate(error_model)
     ELSE IF called \in {"measure_Z_basis", "measure_X_basis"}
          THEN error_scale_factor_meas(error_model)
     ELSE error_scale_factor_prep(error_model)) * call_args.p_err

\* the fault of the last engine call fired
FaultFired == call_args.u = 0 /\ ScaledRate > 0

\* the symplectic product of two accumulators: 0 when the Paulis commute
SymplecticProduct(a, b) ==
    SumTo([q \in 1..N |-> a[q - 1] * b[q - 1 + N] + a[q - 1 + N] * b[q - 1]], N) % 2

\* Clifford conjugation by the gate named method on qubits q1, q2, every
\* right-hand side read from a
Conjugated(a, method, q1, q2) ==
    IF method = "h"
    THEN [a EXCEPT ![q1] = a[q1 + N], ![q1 + N] = a[q1]]
    ELSE IF method = "cnot"
    THEN [a EXCEPT ![q2] = (a[q2] + a[q1]) % 2, ![q1 + N] = (a[q1 + N] + a[q2 + N]) % 2]
    ELSE IF method = "cz"
    THEN [a EXCEPT ![q2 + N] = (a[q2 + N] + a[q1]) % 2, ![q1 + N] = (a[q1 + N] + a[q2]) % 2]
    ELSE IF method = "xnot"
    THEN [a EXCEPT ![q2] = (a[q2] + a[q1 + N]) % 2, ![q1] = (a[q1] + a[q2 + N]) % 2]
    ELSE [a EXCEPT ![q2] = (a[q2] + a[q1 + N]) % 2,
                   ![q2 + N] = (a[q2 + N] + a[q1 + N]) % 2,
                   ![q1] = (a[q1] + a[q2] + a[q2 + N]) % 2]

\* what the engine's gate of the last call makes of accumulator b when no
\* fault fires
GateImage(b) ==
    IF called = "h"
    THEN h(b, call_args.qubit_idx1, 1, 0, 0, NoTestConfig, 0, error_model)
    ELSE Gate(called, b, call_args.qubit_idx1, call_args.qubit_idx2, 1, 0, 0, error_model)

\* the accumulators the symplectic product is taken with: one bit of any qubit
OtherAccumulators == {Acc(<<n>>) : n \in AccIdx}

GateCalled == called \in {"h", "cnot", "xnot", "ynot", "cz"}

\* C13: with no fault, each gate maps the accumulator by Clifford
\* conjugation on its operands, all right-hand sides read before the gate:
\* h swaps the qubit's X and Z bits; cnot(c,t) does x_t ^= x_c, z_c ^= z_t;
\* cz(a,b) does z_b ^= x_a, z_a ^= x_b; xnot(a,b) does x_b ^= z_a,
\* x_a ^= z_b; ynot(o,y) does x_y ^= z_o, z_y ^= z_o, x_o ^= x_y ^ z_y; and
\* every gate preserves the symplectic product of any two accumulators.
C13_GatesConjugate ==
    (GateCalled /\ ~FaultFired) =>
        /\ pauli_accumulator =
              Conjugated(entry.acc, called, call_args.qubit_idx1, call_args.qubit_idx2)
        /\ \A b \in OtherAccumulators :
              SymplecticProduct(pauli_accumulator, GateImage(b))
                  = SymplecticProduct(entry.acc, b)

\* C13 witness: a ynot without fault on an accumulator with a Z on the oplus
\* end and an X on the y end, after another call
C13_Witness ==
    /\ called = "ynot" /\ ~FaultFired
    /\ entry.acc[call_args.qubit_idx1 + N] = 1
    /\ entry.acc[call_args.qubit_idx2] = 1
    /\ ncalls = 2

\* every bit of a and b outside qubit q is the same
SameElsewhere(a, b, q) == \A n \in AccIdx : (n # q /\ n # q + N) => a[n] = b[n]

Bool(b) == IF b THEN 1 ELSE 0

\* C14: prepare_Z_basis(q, p) leaves q with Z bit 0 and X bit 1 exactly when
\* the preparation fault fires; prepare_X_basis(q, p) leaves q with X bit 0
\* and Z bit 1 exactly when the fault fires; q's previous bits are discarded
\* and no other qubit's bits change.  reset_ancilla and reset_flag do the
\* same on the ancilla and on the flag.
C14_PrepareDiscards ==
    /\ called \in {"prepare_Z_basis", "reset_ancilla"} =>
          /\ pauli_accumulator[call_args.qubit_idx1 + N] = 0
          /\ pauli_accumulator[call_args.qubit_idx1] = Bool(FaultFired)
          /\ SameElsewhere(pauli_accumulator, entry.acc, call_args.qubit_idx1)
    /\ called \in {"prepare_X_basis", "reset_flag"} =>
          /\ pauli_accumulator[call_args.qubit_idx1] = 0
          /\ pauli_accumulator[call_args.qubit_idx1 + N] = Bool(FaultFired)
          /\ SameElsewhere(pauli_accumulator, entry.acc, call_args.qubit_idx1)

\* C14 witness: prepare_X_basis whose fault fires, on a qubit that carried an
\* X, with another qubit carrying an error that stays
C14_Witness ==
    /\ called = "prepare_X_basis" /\ FaultFired
    /\ entry.acc[call_args.qubit_idx1] = 1
    /\ \E n \in AccIdx : n # call_args.qubit_idx1 + N /\ pauli_accumulator[n] = 1

\* C15: measure_Z_basis and measure_X_basis never change the accumulator; the
\* outcome is the qubit's X bit (Z basis) or Z bit (X basis), inverted
\* exactly when the measurement fault fires.
C15_MeasureReads ==
    /\ called = "measure_Z_basis" =>
          /\ pauli_accumulator = entry.acc
          /\ meas_outcome = (entry.acc[call_args.qubit_idx1] + Bool(FaultFired)) % 2
    /\ called = "measure_X_basis" =>
          /\ pauli_accumulator = entry.acc
          /\ meas_outcome = (entry.acc[call_args.qubit_idx1 + N] + Bool(FaultFired)) % 2

\* C15 witness: an X-basis measurement of a qubit with a Z and no X, whose
\* fault fires: the outcome is 0
C15_Witness ==
    /\ called = "measure_X_basis" /\ FaultFired
    /\ entry.acc[call_args.qubit_idx1 + N] = 1
    /\ entry.acc[call_args.qubit_idx1] = 0
    /\ meas_outcome = 0

\* call n of the engine caller has qubit q as an operand
Touches(n, q) == ops[n][2] = q \/ ops[n][3] = q

\* the last call measured q in the basis of method prep, at rate 0, and call
\* m prepared q in that basis at rate 0 with no call on q in between
RoundTrip(m, prep, meas) ==
    /\ m < Len(ops)
    /\ ops[Len(ops)][1] = meas /\ ops[Len(ops)][4] = 0
    /\ ops[m][1] = prep /\ ops[m][4] = 0
    /\ ops[m][2] = ops[Len(ops)][2]
    /\ \A n \in (m + 1)..(Len(ops) - 1) : ~Touches(n, ops[m][2])

\* C16: for any accumulator, preparing a qubit in the Z basis (X basis) at
\* p = 0 and then measuring it in the same basis at p = 0, with no gate on
\* that qubit in between, reports outcome 0.
C16_RoundTripZero ==
    pc = "engine" =>
        \A m \in 1..Len(ops) :
            (\/ RoundTrip(m, "prepare_Z_basis", "measure_Z_basis")
             \/ RoundTrip(m, "prepare_X_basis", "measure_X_basis")) => meas_outcome = 0

\* C16 witness: an X-basis round trip on the flag qubit, with an engine
\* whose preparations and measurements can fail at a positive rate, while
\* another qubit carries an error
C16_Witness ==
    /\ pc = "engine"
    /\ error_model = "CHAO_CKT_LVL_NOISE_WITHOUT_IDLING"
    /\ RoundTrip(1, "prepare_X_basis", "measure_X_basis")
    /\ ops[1][2] = flag_qubits[0]
    /\ pauli_accumulator # clear_pauli_accumulator
    /\ meas_outcome = 0

\* C17: the engine is deterministic given the random draws.  Two objects
\* that start from the same accumulator and are given the same prepare, gate
\* and measure calls, with draws that make the same faults fire (at p = 0
\* none does), have identical accumulators and report identical outcomes.
C17_Deterministic ==
    pc = "engine" =>
        /\ replay_accumulator = pauli_accumulator
        /\ replay_outcome = meas_outcome

\* C17 witness: after a fault that fired, a measurement at rate 0 reports 1
C17_Witness ==
    /\ pc = "engine" /\ ncalls = 2
    /\ faults = 1
    /\ called \in {"measure_Z_basis", "measure_X_basis"}
    /\ call_args.p_err = 0
    /\ meas_outcome = 1 /\ replay_outcome = 1


\* ---------------------------------------------------------------------------
\* Directed fault injection through test_config
\* ---------------------------------------------------------------------------

\* the accumulator entries of the data qubits
DataEntries == {n \in 0..(2 * N - 1) : n % N < num_data_qubits}

\* test_config asks for a directed fault
Directed(tc) == ~tc.is_none /\ tc.inject_error

\* the Pauli pair of tc acts on data qubits only
OnDataQubits(tc) ==
    /\ tc.pauli_idx1 = 0 \/ tc.qubit_idx1 < num_data_qubits
    /\ tc.pauli_idx2 = 0 \/ tc.qubit_idx2 < num_data_qubits

\* C18: a syndrome_extraction given a non-None test_config with inject_error
\* set and error_loc = L, for every location id the protocol uses (0
\* included), returns normally, injects no random depolarizing fault at any
\* two-qubit gate, and injects exactly the specified Pauli pair on the
\* specified qubits: when the pair is on data qubits and nothing else faults,
\* the data qubits' entries differ from their values at entry by that pair.
C18_DirectedOverride ==
    (called = "syndrome_extraction" /\ Directed(test_config) /\ entry.status = "IDLE") =>
        /\ failure = "none"
        /\ gate_faults = entry.gate_faults
        /\ (faults = entry.nf /\ OnDataQubits(test_config)) =>
              \A n \in DataEntries :
                  pauli_accumulator[n] =
                      two_qubit_pauli_error(entry.acc, test_config.pauli_idx1, test_config.pauli_idx2,
                                            test_config.qubit_idx1, test_config.qubit_idx2)[n]

\* ---------------------------------------------------------------------------
\* The split of the rounds over the ranks, and the gather
\* ---------------------------------------------------------------------------

MpiDriver == driver = "p_phys_sweep_simulation_mpi"

\* floor(S/W) + 1 below the remainder S mod W, floor(S/W) from it on
EvenShare(S, W, r) == IF r < S % W THEN (S \div W) + 1 ELSE S \div W

\* the batches of ranks 0..r added up
RECURSIVE SumOfBatches(_, _, _)
SumOfBatches(S, W, r) ==
    IF r < 0 THEN 0 ELSE BatchOf(S, W, r) + SumOfBatches(S, W, r - 1)

\* the batches of W ranks sharing S rounds are an even split
EvenSplit(S, W) ==
    /\ \A r \in 0..(W - 1) : BatchOf(S, W, r) = EvenShare(S, W, r)
    /\ \A r1, r2 \in 0..(W - 1) :
          /\ BatchOf(S, W, r1) - BatchOf(S, W, r2) <= 1
          /\ r1 < r2 => BatchOf(S, W, r1) >= BatchOf(S, W, r2)
    /\ SumOfBatches(S, W, W - 1) = S

\* the batch sizes reported to rank 0 for rate jj by ranks 0..kk, added up
RECURSIVE SumOfReportedBatches(_, _)
SumOfReportedBatches(jj, kk) ==
    IF kk < 0 THEN 0
    ELSE results_per_batch_per_p_phys[ResultKey(kk, jj)].batch_size
             + SumOfReportedBatches(jj, kk - 1)

\* C19: in p_phys_sweep_simulation_mpi with W workers and samples_per_point
\* S, worker r has batch size floor(S/W)+1 when r < S mod W and floor(S/W)
\* otherwise and runs that many rounds in every rate; batch sizes differ by
\* at most 1, the larger ones are at the lowest ranks, and for every rate
\* the batch sizes of all workers sum to S, also when W > S.
C19_EvenSplit ==
    MpiDriver =>
        /\ pc # "start" => batch_size = EvenShare(samples_per_point, num_cores, my_rank)
        /\ (pc = "rate" /\ j > 0) => i = EvenShare(samples_per_point, num_cores, my_rank)
        /\ EvenSplit(samples_per_point, num_cores)
        /\ \A S \in 0..(2 * MaxCores + 1), W \in 1..MaxCores : EvenSplit(S, W)
        /\ (pc = "done" /\ my_rank = 0) =>
              \A jj \in RateIdx : SumOfReportedBatches(jj, num_cores - 1) = samples_per_point

\* a rank beyond the remainder, with more workers than rounds, has finished
\* its sweep having run no round
C19_Witness ==
    /\ MpiDriver /\ pc = "done"
    /\ num_cores > samples_per_point
    /\ my_rank >= samples_per_point % num_cores
    /\ batch_size = 0 /\ i = 0
    /\ Len(outbox) = NumRates

\* the logical-error counts reported to rank 0 for rate jj by ranks 0..kk,
\* added up
RECURSIVE SumOfReportedCounts(_, _)
SumOfReportedCounts(jj, kk) ==
    IF kk < 0 THEN 0
    ELSE results_per_batch_per_p_phys[ResultKey(kk, jj)].logical_error_counts
             + SumOfReportedCounts(jj, kk - 1)

PairwiseDistinctRates == \A j1, j2 \in RateIdx : j1 # j2 => p_phys[j1] # p_phys[j2]

Gathered == MpiDriver /\ my_rank = 0 /\ pc = "done"

\* C20: after the gather, for a sweep of pairwise distinct rates, the entry
\* of complete_results for each rate is the sum over all num_cores workers,
\* rank 0 included, of the logical-error counts they reported for that rate.
C20_GatherSums ==
    (Gathered /\ PairwiseDistinctRates) =>
        \A jj \in RateIdx :
            /\ RateStr(p_phys[jj]) \in DOMAIN complete_results
            /\ complete_results[RateStr(p_phys[jj])] = SumOfReportedCounts(jj, num_cores - 1)

\* three workers, and for one rate rank 0 counted a logical error itself
\* and received a non-zero count from rank 1
C20_Witness ==
    /\ Gathered /\ PairwiseDistinctRates
    /\ num_cores = MaxCores
    /\ \E jj \in RateIdx :
          /\ results_per_batch_per_p_phys[ResultKey(0, jj)].logical_error_counts > 0
          /\ results_per_batch_per_p_phys[ResultKey(1, jj)].logical_error_counts > 0
          /\ complete_results[RateStr(p_phys[jj])] >= 2

\* ---------------------------------------------------------------------------
\* The sample total of the gather
\* ---------------------------------------------------------------------------

\* the batch sizes reported to rank 0 for rates 0..jj by all ranks, added up
RECURSIVE SumOverRates(_)
SumOverRates(jj) ==
    IF jj < 0 THEN 0
    ELSE SumOfReportedBatches(jj, num_cores - 1) + SumOverRates(jj - 1)

\* C21 as stated: for each rate of the sweep, the sample total the
\* coordinator records is the sum of the workers' batch sizes for that rate,
\* that is samples_per_point.
C21_SampleTotalPerRate ==
    Gathered =>
        \A jj \in RateIdx :
            /\ complete_results["total_samples"] = SumOfReportedBatches(jj, num_cores - 1)
            /\ complete_results["total_samples"] = samples_per_point

\* C21 amended: the coordinator records one sample total for the whole
\* sweep, complete_results["total_samples"], which is the sum of the batch
\* sizes of all workers over all rates, that is samples_per_point times the
\* number of rates.
C21_SampleTotalOfSweep ==
    Gathered =>
        /\ complete_results["total_samples"] = SumOverRates(NumRates - 1)
        /\ complete_results["total_samples"] = samples_per_point * NumRates

\* the gather of as many workers as there can be, with unequal batches, and
\* a rate given twice
C21_Witness ==
    /\ Gathered
    /\ num_cores = MaxCores
    /\ ~PairwiseDistinctRates
    /\ \E kk \in 1..(num_cores - 1) :
          results_per_batch_per_p_phys[ResultKey(kk, 0)].batch_size # batch_size
    /\ complete_results["total_samples"] = samples_per_point * NumRates

\* ---------------------------------------------------------------------------
\* The gather is the only exchange of messages
\* ---------------------------------------------------------------------------

\* the keys under which rank 0 has stored a received message
ReceivedKeys ==
    {key \in DOMAIN results_per_batch_per_p_phys : results_per_batch_per_p_phys[key].rank > 0}

\* the keys of the messages of ranks 1..kk - 1 for every rate, and of rank
\* kk for the rates before jj
KeysUpTo(kk, jj) ==
    {ResultKey(k1, j1) : k1 \in 1..(kk - 1), j1 \in RateIdx}
        \cup {ResultKey(kk, j1) : j1 \in 0..(jj - 1)}

\* the process is inside the rounds of rate j
Sampling == pc \in {"round", "extract", "decode", "track", "cleanup"}

\* C23: rank 0 builds complete_results only after it has received one
\* message from every rank k >= 1 for every rate, (num_cores - 1) * NumRates
\* messages in all, each stored under the key of its rank and rate; no
\* message is sent or received during the rounds, and a rank k >= 1 has sent
\* one message for each rate whose rounds it has finished and no other.
C23_GatherIsOnlySync ==
    MpiDriver =>
        /\ pc = "gather" => ReceivedKeys = KeysUpTo(source, j)
        /\ complete_results # <<>> =>
              /\ Gathered
              /\ ReceivedKeys = KeysUpTo(num_cores, 0)
              /\ Cardinality(ReceivedKeys) = (num_cores - 1) * NumRates
              /\ \A kk \in 1..(num_cores - 1), jj \in RateIdx :
                    /\ results_per_batch_per_p_phys[ResultKey(kk, jj)].rank = kk
                    /\ results_per_batch_per_p_phys[ResultKey(kk, jj)].p_phys = p_phys[jj]
        /\ Gathered => complete_results # <<>>
        /\ (pc \in {"start", "rate"} \/ Sampling) =>
              /\ ReceivedKeys = {}
              /\ Len(outbox) = (IF my_rank > 0 /\ pc # "start" THEN j ELSE 0)
        /\ \A n \in 1..Len(outbox) :
              /\ outbox[n].rank = my_rank
              /\ outbox[n].p_phys = p_phys[n - 1]

\* rank 0 of three has its four messages and has built complete_results
C23_Witness ==
    /\ Gathered
    /\ num_cores = MaxCores
    /\ Cardinality(ReceivedKeys) = (MaxCores - 1) * NumRates
    /\ complete_results # <<>>

\* a rank k >= 1 in the rounds of its second rate has sent one message
C23_WorkerWitness ==
    /\ MpiDriver /\ my_rank > 0
    /\ pc = "track" /\ j = 1
    /\ Len(outbox) = 1

\* ---------------------------------------------------------------------------
\* What a round starts from
\* ---------------------------------------------------------------------------

\* the driver is about to start round i of rate j
RoundStarts == pc = "round" /\ i < Rounds

\* status and syndrome records as create and cleanup leave them
RecordsDiscarded ==
    /\ syndrome_ex_status = "IDLE"
    /\ current_syndrome_n_flag = PyNone
    /\ syndrome_n_flag_1st_subround = PyNone
    /\ syndrome_2nd_subround = PyNone

\* C24 as stated: the state a round starts from (accumulator, syndrome
\* records, status) is the same for every round of a rate, the state the
\* first round starts from, whatever faults fired in earlier rounds; the
\* entries of ancilla and flag, which init_state prepares again, are left
\* out of the comparison.
C24_RoundsIndependent ==
    RoundStarts =>
        /\ RecordsDiscarded
        /\ \A n \in DataEntries : pauli_accumulator[n] = clear_pauli_accumulator[n]

\* C24 amended: every round starts with status IDLE and the three syndrome
\* records None; the accumulator it starts from is all-zero in the first
\* round of a rate and after a round that was counted as a logical error,
\* and otherwise is the accumulator that the extraction and decoding of the
\* round before left, which logical_error_tracking restores and cleanup
\* keeps, so that it does depend on the faults of earlier rounds.
C24_RoundStartState ==
    /\ RoundStarts => RecordsDiscarded
    /\ (RoundStarts /\ i = 0) => pauli_accumulator = clear_pauli_accumulator
    /\ Returned("logical_error_tracking") =>
          pauli_accumulator = (IF Counted THEN clear_pauli_accumulator ELSE entry.acc)
    /\ (pc = "round" /\ i > 0) => (called = "cleanup" /\ pauli_accumulator = entry.acc)

\* a round is about to start from the residual error of the round before
C24_Witness ==
    /\ RoundStarts /\ i > 0
    /\ RecordsDiscarded
    /\ logical_error_counts[j] = PyInt(0)
    /\ \E n \in DataEntries : pauli_accumulator[n] = 1

\* ---------------------------------------------------------------------------
\* Fault tolerance of a round
\* ---------------------------------------------------------------------------

\* the faults that fired since the round in progress began
FaultsOfRound == faults - round_start.nf

\* C25: with the minimum-weight table and the circuit-level noise model, a
\* round that starts from an all-zero accumulator and in whose init_state and
\* extraction at most one fault fires (a preparation error, a two-qubit gate
\* fault of any of the 15 Paulis at any gate of the with-flag or the
\* without-flag circuits, or a measurement flip), none firing in the
\* resynchronization, is not counted as a logical error.
C25_SingleFaultTolerance ==
    (/\ Returned("logical_error_tracking")
     /\ error_model = "CHAO_CKT_LVL_NOISE_WITHOUT_IDLING"
     /\ syndrome_lookup_table = "five_qubit_code_flag_min_wt_LUT"
     /\ round_start.acc = clear_pauli_accumulator
     /\ FaultsOfRound <= 1
     /\ faults = entry.nf) =>
        /\ ~Counted
        /\ ~LogicalErrorFound
        /\ logical_error_counts = round_start.counts

\* a gate fault fired in a round begun from the all-zero accumulator, the
\* decoding left an error on the data qubits, and the resynchronization
\* removed it
C25_Witness ==
    /\ Returned("logical_error_tracking")
    /\ error_model = "CHAO_CKT_LVL_NOISE_WITHOUT_IDLING"
    /\ round_start.acc = clear_pauli_accumulator
    /\ FaultsOfRound = 1
    /\ gate_faults = round_start.gate_faults + 1
    /\ \E n \in DataEntries : entry.acc[n] = 1
    /\ resynced = clear_pauli_accumulator
    /\ ~Counted

\* ---------------------------------------------------------------------------
\* A single-worker run beside a distributed run.  The object runs
\* p_phys_sweep_simulation; beside it, p_phys_sweep_simulation_mpi is run by
\* as many workers as there are rounds per rate, so that round i of a rate is
\* the one round of worker i, which starts it from a new circuit.  Every call
\* of the worker is given the faults that fired in the same call of the
\* single-worker run, at the same places.  In this specification the bound
\* MaxFaults is on the faults of one round: faults counts those of the round
\* in progress.  Only the first rate of the sweep can be positive.
\* ---------------------------------------------------------------------------
\* acc has no error on a data qubit
NoDataError(acc) == \A n \in AccIdx : n % num_all_qubits < num_data_qubits => acc[n] = 0

InitSplit ==
    /\ Constructed
    /\ p_phys \in {p \in [RateIdx -> Rates] : \A r \in RateIdx : r > 0 => p[r] = 0}
    /\ driver = "p_phys_sweep_simulation" /\ num_cores = 1 /\ my_rank = 0
    /\ pc = "rate"

\* the worker's object as its next call finds it
WorkerSelf == [worker EXCEPT !.ngates = 0, !.fired = <<>>]

\* the outcomes among B in which the faults of outcome r fired
SameFaults(r, B) == {b \in B : b.fired = r.fired}

\* the worker's call has one of the outcomes B, the one with the faults of r
WorkerBecomes(r, B) ==
    IF worker.matched /\ SameFaults(r, B) # {}
    THEN worker' \in SameFaults(r, B)
    ELSE worker' = [worker EXCEPT !.matched = FALSE]

\* method m is called in both runs, with outcomes A in the single-worker run
\* and B in the worker
SplitStep(m, next, A, B) ==
    /\ \E r \in A : Becomes(r) /\ pc' = After(r, next) /\ WorkerBecomes(r, B)
    /\ Called(m, NoTestConfig)
    /\ UNCHANGED <<inputs, batch_size, j, mpi, ncalls, engine>>

SplitStartRate ==
    /\ pc = "rate" /\ j < NumRates
    /\ logical_error_counts' = [logical_error_counts EXCEPT ![j] = PyInt(0)]
    /\ pauli_accumulator' = clear_pauli_accumulator
    /\ i' = 0
    /\ pc' = "round"
    /\ worker' = FreshWorker(logical_error_counts, j, 0, TRUE, TRUE)
    /\ called' = "driver"
    /\ UNCHANGED <<inputs, syndrome_ex_status, current_syndrome_n_flag,
                   syndrome_n_flag_1st_subround, syndrome_2nd_subround, failure,
                   faults, gate_faults, ops, status_log, meas_log, ngates, resynced,
                   batch_size, j, mpi, ncalls, entry, test_config, round_start, engine>>

\* round i begins: init_state in the single-worker run, and in worker i
\* after its create_circuit
SplitInitState ==
    /\ pc = "round" /\ i < Rounds
    /\ SplitStep("init_state", "extract",
                 init_state([Self EXCEPT !.ops = <<>>, !.nf = 0], p_phys[j], error_model),
                 init_state(FreshWorker(logical_error_counts, j, worker.total, worker.matched,
                                        worker.aligned /\ NoDataError(pauli_accumulator)),
                            p_phys[j], error_model))
    /\ UNCHANGED i

SplitSyndromeExtraction ==
    /\ pc = "extract"
    /\ SplitStep("syndrome_extraction", "decode",
                 syndrome_extraction(Self, NoTestConfig, p_phys[j], error_model),
                 syndrome_extraction(WorkerSelf, NoTestConfig, p_phys[j], error_model))
    /\ UNCHANGED i

SplitSyndromeDecoding ==
    /\ pc = "decode"
    /\ SplitStep("syndrome_decoding", "track",
                 {syndrome_decoding(Self, Table(syndrome_lookup_table))},
                 {syndrome_decoding(WorkerSelf, Table(syndrome_lookup_table))})
    /\ UNCHANGED i

SplitLogicalErrorTracking ==
    /\ pc = "track"
    /\ SplitStep("logical_error_tracking", "cleanup",
                 logical_error_tracking(Self, j, error_model, Table(syndrome_lookup_table)),
                 logical_error_tracking(WorkerSelf, j, error_model,
                                        Table(syndrome_lookup_table)))
    /\ UNCHANGED i

\* cleanup in both runs; worker i is done and sends its count
SplitCleanup ==
    /\ pc = "cleanup"
    /\ SplitStep("cleanup", "round",
                 {cleanup(Self)},
                 {[cleanup(WorkerSelf) EXCEPT !.total = @ + worker.counts[j].num]})
    /\ i' = i + 1

SplitEndRate ==
    /\ pc = "round" /\ i = Rounds
    /\ j' = j + 1
    /\ pc' = "rate"
    /\ DriverStep
    /\ UNCHANGED <<inputs, object, batch_size, i, mpi, ncalls>>

SplitFinishSweep ==
    /\ pc = "rate" /\ j = NumRates
    /\ pc' = "done"
    /\ DriverStep
    /\ UNCHANGED <<inputs, object, batch_size, j, i, mpi, ncalls>>

NextSplit ==
    \/ SplitStartRate
    \/ SplitInitState
    \/ SplitSyndromeExtraction
    \/ SplitSyndromeDecoding
    \/ SplitLogicalErrorTracking
    \/ SplitCleanup
    \/ SplitEndRate
    \/ SplitFinishSweep

SpecSplit == InitSplit /\ [][NextSplit]_vars

\* the rounds of the rate before rate j are over in both runs
RateCompared == pc \in {"rate", "done"} /\ j > 0

\* C22: for the same number of rounds per rate and the same fault outcomes
\* in every round, the logical-error counts of the workers of a distributed
\* run add up to the logical-error count of the single-worker run, for every
\* rate.
C22_SplitEqualsSingle ==
    (RateCompared /\ worker.matched) => worker.total = logical_error_counts[j - 1].num

\* C22 amended: for the same number of rounds per rate and the same fault
\* outcomes in every round, the counts of the workers add up to the count of
\* the single-worker run for every rate in which each round starts, in both
\* runs, from the same data-qubit part of the accumulator: here, where every
\* worker starts its round from a new circuit, when no round of the
\* single-worker run left an error on a data qubit to the next; and such a
\* round is counted in the one run exactly if it is in the other.
C22_SplitEqualsSingleFromSameStart ==
    /\ (RateCompared /\ worker.matched /\ worker.aligned) =>
          worker.total = logical_error_counts[j - 1].num
    /\ (pc = "cleanup" /\ worker.matched /\ NoDataError(round_start.acc)) =>
          (Counted <=> worker.counts[j] = PyInt(1))

\* both rounds of a rate had a fault, and one was counted in both runs
C22_Witness ==
    /\ RateCompared /\ worker.matched /\ worker.aligned
    /\ error_model = "ONE_STOCHASTIC_PAULI_ERROR"
    /\ worker.total = 1
    /\ logical_error_counts[j - 1] = PyInt(1)
\* ------------------------------------------------------------------------
\* Properties of the measurement circuits
\* ------------------------------------------------------------------------

\* the stabilizer generators XZZXI, IXZZX, XIXZZ, ZXIXZ the circuits are
\* written for, as rows x | z over the data qubits (layout of logical_ops)
generators ==
    << <<1,0,0,1,0, 0,1,1,0,0>>,
       <<0,1,0,0,1, 0,0,1,1,0>>,
       <<1,0,1,0,0, 0,0,0,1,1>>,
       <<0,1,0,1,0, 1,0,0,0,1>> >>

\* the symplectic product of the data-qubit bits of acc with generator g
SyndromeBit(acc, g) ==
    SumTo([n \in 1..num_data_qubits |->
              acc[n - 1] * generators[g][num_data_qubits + n]
              + acc[num_all_qubits + n - 1] * generators[g][n]], num_data_qubits) % 2

\* gate is the data gate generator g asks for: an XNOT from a qubit of the
\* X support, a CNOT from a qubit of the Z support, onto the ancilla
DataGateOf(gate, g) ==
    /\ gate[2] \in 0..(num_data_qubits - 1)
    /\ gate[3] = anc_qubits[0]
    /\ (gate[1] = "xnot") <=> (generators[g][gate[2] + 1] = 1)
    /\ (gate[1] = "cnot") <=> (generators[g][num_data_qubits + gate[2] + 1] = 1)

FlagGate(gate) ==
    gate[1] = "cnot" /\ gate[2] = flag_qubits[0] /\ gate[3] = anc_qubits[0]

Support(g) ==
    {q \in 0..(num_data_qubits - 1) :
        generators[g][q + 1] = 1 \/ generators[g][num_data_qubits + q + 1] = 1}

\* the with-flag circuit of generator g has one data gate per qubit of the
\* support, the flag gates after the first and before the last of them
FlaggedCircuitOf(g) ==
    LET c == WithFlagCircuit(g)
    IN  /\ Len(c) = 6
        /\ \A n \in {1, 3, 4, 6} : DataGateOf(c[n], g)
        /\ {c[n][2] : n \in {1, 3, 4, 6}} = Support(g)
        /\ FlagGate(c[2]) /\ FlagGate(c[5])

DataBits(acc) == [n \in 1..(2 * num_data_qubits) |->
                     IF n <= num_data_qubits THEN acc[n - 1]
                     ELSE acc[num_all_qubits + n - num_data_qubits - 1]]

AncillaClean(acc) ==
    acc[anc_qubits[0]] = 0 /\ acc[num_all_qubits + anc_qubits[0]] = 0

FlagClean(acc) ==
    acc[flag_qubits[0]] = 0 /\ acc[num_all_qubits + flag_qubits[0]] = 0

\* the last call was a syndrome_extraction without a test_config that
\* returned normally, no fault having fired in it
FaultFreeExtraction ==
    /\ Returned("syndrome_extraction")
    /\ test_config = NoTestConfig
    /\ faults = entry.nf

\* C26: with no fault, and ancilla and flag error-free at entry, the
\* with-flag circuit of generator g (an XNOT per X-support qubit, a CNOT per
\* Z-support qubit, the flag CNOTs after the first and before the last data
\* gate) reports the symplectic product of the data error with g as the
\* syndrome bit and 0 as the flag bit, leaves the data-qubit bits as they
\* were, and ends with ancilla and flag cleared
C26_WithFlagCircuitReportsSyndrome ==
    /\ \A g \in 1..4 : FlaggedCircuitOf(g)
    /\ (FaultFreeExtraction /\ AncillaClean(entry.acc) /\ FlagClean(entry.acc)) =>
          /\ \A n \in 1..Len(meas_log) :
                meas_log[n][1] = "with_flag" =>
                    /\ meas_log[n][3] = SyndromeBit(entry.acc, meas_log[n][2])
                    /\ meas_log[n][4] = 0
          /\ DataBits(pauli_accumulator) = DataBits(entry.acc)
          /\ AncillaClean(pauli_accumulator) /\ FlagClean(pauli_accumulator)

\* C26 witness: a fault-free extraction entered with an error on the data
\* qubits that commutes with XZZXI and IXZZX and not with XIXZZ: the third
\* with-flag circuit reported syndrome 1, flag 0
C26_Witness ==
    /\ FaultFreeExtraction /\ AncillaClean(entry.acc) /\ FlagClean(entry.acc)
    /\ DataBits(entry.acc) # [n \in 1..(2 * num_data_qubits) |-> 0]
    /\ Len(meas_log) >= 3
    /\ meas_log[3] = <<"with_flag", 3, 1, 0>>
    /\ SyndromeBit(entry.acc, 3) = 1

\* ------------------------------------------------------------------------
\* The unflagged remeasurement on its own: syndrome_extraction has set the
\* status, the accumulator carries what the faults before have left
\* ------------------------------------------------------------------------
\* at most one Pauli on the data qubits, and nothing else, or an X on the
\* ancilla, or an X or a Z on the flag qubit
MeasureAccumulators ==
    {XorAt(one_stochastic_pauli_error_data_qubits(clear_pauli_accumulator, pat), probes) :
        pat \in {q \in [0..(num_data_qubits - 1) -> 0..3] : Weight(q) <= 1},
        probes \in {<<>>, <<anc_qubits[0]>>, <<flag_qubits[0]>>,
                    <<flag_qubits[0] + num_all_qubits>>}}

InitMeasure ==
    /\ samples_per_point = MaxSamples
    /\ comm = NoComm
    /\ error_model \in ErrorModels
    /\ syndrome_lookup_table = "five_qubit_code_flag_min_wt_LUT"
    /\ p_phys = [r \in RateIdx |-> 0]
    /\ driver = "none" /\ num_cores = 1 /\ my_rank = 0
    /\ pauli_accumulator \in MeasureAccumulators
    /\ syndrome_ex_status = "MEAS_GEN_WITHOUT_FLAG"
    /\ current_syndrome_n_flag = PyNone
    /\ syndrome_n_flag_1st_subround = PyNone
    /\ syndrome_2nd_subround = PyNone
    /\ logical_error_counts = [r \in RateIdx |-> PyNone]
    /\ batch_size = 0 /\ j = 0 /\ i = 0 /\ source = 0
    /\ outbox = <<>>
    /\ results_per_batch_per_p_phys = <<>>
    /\ complete_results = <<>>
    /\ failure = "none"
    /\ faults = 0 /\ gate_faults = 0 /\ ops = <<>> /\ status_log = <<>> /\ meas_log = <<>>
    /\ ngates = 0 /\ resynced = clear_pauli_accumulator
    /\ called = "__init__" /\ entry = Snapshot /\ round_start = Snapshot
    /\ worker = FreshWorker([r \in RateIdx |-> PyNone], 0, 0, TRUE, TRUE)
    /\ test_config = NoTestConfig
    /\ ncalls = 0
    /\ call_args = NoCall /\ meas_outcome = -1 /\ replay_outcome = -1
    /\ replay_accumulator = clear_pauli_accumulator
    /\ pc = "api"

NextMeasure == CallMeasureFullSyndromeWithoutFlags

SpecMeasure == InitMeasure /\ [][NextMeasure]_vars

\* the last call was a measure_full_syndrome_without_flags that returned, no
\* fault having fired in it
FaultFreeRemeasurement ==
    /\ Returned("measure_full_syndrome_without_flags")
    /\ faults = entry.nf

\* no gate of the unflagged circuits has the flag qubit as an operand
FlagUntouched ==
    \A k \in 1..4 : \A n \in 1..Len(WithoutFlagCircuit(k)) :
        /\ WithoutFlagCircuit(k)[n][2] # flag_qubits[0]
        /\ WithoutFlagCircuit(k)[n][3] # flag_qubits[0]

\* C27: with no fault and an error-free ancilla at entry,
\* measure_full_syndrome_without_flags returns a record of 4 bits, the k-th
\* the symplectic product of the data error with generator k (XZZXI, IXZZX,
\* XIXZZ, ZXIXZ); no gate touches the flag qubit, whose bits stay as they
\* were; the ancilla is reset after each measurement, so that a bit does not
\* depend on the outcomes before it; the data-qubit bits stay as they were
C27_WithoutFlagsReportsSyndrome ==
    /\ FlagUntouched
    /\ (FaultFreeRemeasurement /\ AncillaClean(entry.acc)) =>
          /\ syndrome_2nd_subround = PyArray1([k \in 1..4 |-> SyndromeBit(entry.acc, k)])
          /\ Len(meas_log) >= 4
          /\ \A k \in 1..4 :
                meas_log[Len(meas_log) - 4 + k]
                    = <<"without_flag", k, SyndromeBit(entry.acc, k), -1>>
          /\ pauli_accumulator[flag_qubits[0]] = entry.acc[flag_qubits[0]]
          /\ pauli_accumulator[flag_qubits[0] + num_all_qubits]
                = entry.acc[flag_qubits[0] + num_all_qubits]
          /\ AncillaClean(pauli_accumulator)
          /\ DataBits(pauli_accumulator) = DataBits(entry.acc)

\* C27 witness: a fault-free remeasurement entered with a Y on data qubit 2
\* (syndrome 1 1 1 0) and an error on the flag qubit: two bits in a row are 1
\* and the flag error is still there
C27_Witness ==
    /\ FaultFreeRemeasurement /\ AncillaClean(entry.acc)
    /\ entry.acc[flag_qubits[0]] = 1
    /\ pauli_accumulator[flag_qubits[0]] = 1
    /\ syndrome_2nd_subround = PyArray1(<<1, 1, 1, 0>>)
    /\ ncalls = 1

\* ------------------------------------------------------------------------
\* Shape of the records syndrome_extraction returns
\* ------------------------------------------------------------------------
\* the 1st-subround record of m real pairs, the first m - 1 of them (0,0), the
\* m-th (s,f), and sentinel pairs after them
FirstRecord(m, s, f) ==
    PyStr(array2string_2d([n \in 1..4 |-> IF n < m THEN <<0, 0>>
                                          ELSE IF n = m THEN <<s, f>>
                                          ELSE NoneRow]))

SecondRecords == {PyStr(array2string_1d(bits)) : bits \in [1..4 -> {0, 1}]}

\* C28: on every return from syndrome_extraction the 1st-subround record is m
\* real pairs (1 <= m <= 4) followed only by sentinel pairs, the real pairs
\* before the m-th are (0,0), and the 2nd-subround record is present exactly
\* when the m-th pair is not (0,0), and then holds exactly 4 bits
C28_RecordShape ==
    Returned("syndrome_extraction") =>
        \E m \in 1..4, s \in {0, 1}, f \in {0, 1} :
            /\ syndrome_n_flag_1st_subround = FirstRecord(m, s, f)
            /\ (syndrome_2nd_subround # PyNone) <=> (<<s, f>> # <<0, 0>>)
            /\ syndrome_2nd_subround # PyNone => syndrome_2nd_subround \in SecondRecords

\* C28 witness: the extraction stopped at the 2nd generator with a raised
\* flag and a nonzero syndrome, two sentinel pairs follow, and the
\* remeasurement gave 4 bits
C28_Witness ==
    /\ Returned("syndrome_extraction")
    /\ syndrome_n_flag_1st_subround = FirstRecord(2, 1, 1)
    /\ syndrome_2nd_subround \in SecondRecords

\* the extraction went through the 4 generators without a trigger and
\* returned no 2nd-subround record
C28_AllClearWitness ==
    /\ Returned("syndrome_extraction")
    /\ syndrome_n_flag_1st_subround = FirstRecord(4, 0, 0)
    /\ syndrome_2nd_subround = PyNone
    /\ entry.second # PyNone

\* ------------------------------------------------------------------------
\* Life of the syndrome records in a sampling round
\* ------------------------------------------------------------------------
RecordsEmpty ==
    syndrome_n_flag_1st_subround = PyNone /\ syndrome_2nd_subround = PyNone

\* the number of entries of ops that enter method
Entered(method) == Cardinality({n \in 1..Len(ops) : ops[n][1] = method})

\* a record has grown from old to new: nothing was there, or what was there
\* still is
Grown(old, new) == old = PyNone \/ old = new

\* the records are the measurements of the pass, in the order taken, and
\* nothing else: the pairs measured with a flag, padded, and the bits
\* measured without, if any
RecordsOfPass ==
    /\ meas_log = WithFlagLog \o WithoutFlagLog
    /\ syndrome_n_flag_1st_subround =
          PyStr(array2string_2d([n \in 1..4 |->
                    IF n <= Len(WithFlagLog) THEN <<WithFlagLog[n][3], WithFlagLog[n][4]>>
                    ELSE NoneRow]))
    /\ syndrome_2nd_subround =
          (IF WithoutFlagLog = <<>> THEN PyNone
           ELSE PyStr(array2string_1d([n \in 1..Len(WithoutFlagLog) |-> WithoutFlagLog[n][3]])))

\* the decoder is entered right after an extraction pass, and only then
ReadAfterEachPass ==
    \A n \in 1..Len(ops) :
        /\ ops[n][1] = "syndrome_decoding" => (n > 1 /\ ops[n - 1][1] = "syndrome_extraction")
        /\ (ops[n][1] = "syndrome_extraction" /\ n < Len(ops)) =>
              ops[n + 1][1] = "syndrome_decoding"

\* C29 as stated: within a sampling round the records start empty, only
\* grow, are read by the decoder once, and are set to None at the round
\* boundary
C29_RecordsGrowReadOnce ==
    /\ Returned("init_state") => RecordsEmpty
    /\ Returned("logical_error_tracking") =>
          /\ Grown(entry.first, syndrome_n_flag_1st_subround)
          /\ Grown(entry.second, syndrome_2nd_subround)
    /\ Returned("cleanup") => (Entered("syndrome_decoding") = 1 /\ RecordsEmpty)

\* C29 amended: a round has two extraction passes, the one of the round and
\* the noiseless one inside logical_error_tracking.  The records are empty
\* when the round starts; each pass resets them and then only appends, so
\* that at its end they hold the measurements of that pass, in order, and
\* nothing else; the decoder reads them once after each pass, twice in the
\* round; cleanup sets them to None at the round boundary
C29_RecordsGrowPerPass ==
    /\ Returned("init_state") => RecordsEmpty
    /\ ExtractionReturned => RecordsOfPass
    /\ ReadAfterEachPass
    /\ Returned("cleanup") =>
          /\ Entered("syndrome_extraction") = 2
          /\ Entered("syndrome_decoding") = 2
          /\ RecordsEmpty

\* C29 witness: the round is over, a fault having fired in it; the decoder
\* has read twice, the second time the all-clear record of the noiseless
\* pass, and cleanup has set the records to None
C29_Witness ==
    /\ Returned("cleanup")
    /\ RecordsEmpty
    /\ Entered("syndrome_decoding") = 2
    /\ entry.first = PyStr(array2string_2d([n \in 1..4 |-> <<0, 0>>]))
    /\ entry.second = PyNone
    /\ faults > round_start.nf

\* ------------------------------------------------------------------------
\* The corrections of the lookup tables
\* ------------------------------------------------------------------------
\* the key of the commutation pattern of correction with the 4 generators
SyndromeKey(correction) ==
    array2string_1d([g \in 1..4 |-> SyndromeBit(ExtendCorrection(correction), g)])

\* every correction of the inner table is stored under its own syndrome
KeyedBySyndrome(inner) == \A key \in DOMAIN inner : SyndromeKey(inner[key]) = key

FlagTables == {five_qubit_code_flag_min_wt_LUT, five_qubit_code_flag_high_wt_LUT}

\* the decoder found both keys and applied a correction
DecodingHit ==
    /\ Returned("syndrome_decoding")
    /\ InDict(entry.first, Table(syndrome_lookup_table))
    /\ InValue(entry.second, Table(syndrome_lookup_table), entry.first.str)

\* C30: every correction stored in the lookup tables (the no-flag table and
\* every inner table of the minimum-weight and high-weight flag tables) has a
\* syndrome, its commutation pattern with XZZXI, IXZZX, XIXZZ, ZXIXZ, equal
\* to the 4-bit inner key it is stored under, so that what the decoder
\* applies cancels the measured 2nd-subround syndrome
C30_CorrectionsMatchKeys ==
    /\ KeyedBySyndrome(five_qubit_code_no_flag_LUT)
    /\ \A table \in FlagTables : \A outer \in DOMAIN table : KeyedBySyndrome(table[outer])
    /\ DecodingHit =>
          SyndromeKey(pauli_accumulator_data_qubits(logical_xor(pauli_accumulator, entry.acc)))
              = entry.second.str

\* the entries of the tables stored under a key that is not their syndrome
Miskeyed(table) ==
    {<<outer, key>> \in (DOMAIN table) \X (DOMAIN five_qubit_code_no_flag_LUT) :
        key \in DOMAIN table[outer] /\ SyndromeKey(table[outer][key]) # key}

\* all other entries are keyed by their syndrome: the minimum-weight table
\* has 2 entries that are not, the high-weight table 4, all of them under
\* the two outer keys of a flag raised by the 4th generator
C30_MiskeyedEntries ==
    /\ KeyedBySyndrome(five_qubit_code_no_flag_LUT)
    /\ Miskeyed(five_qubit_code_flag_min_wt_LUT) =
          {"[[0 0] [0 0] [0 0] [0 1]]", "[[0 0] [0 0] [0 0] [1 1]]"} \X {"[1 0 1 1]"}
    /\ Miskeyed(five_qubit_code_flag_high_wt_LUT) =
          {"[[0 0] [0 0] [0 0] [0 1]]", "[[0 0] [0 0] [0 0] [1 1]]"}
              \X {"[1 0 1 1]", "[1 1 1 1]"}

\* ------------------------------------------------------------------------
\* One correction cycle on its own: syndrome_extraction() with its default
\* arguments (test_config=None, p_err=0) and syndrome_decoding(), called on
\* an object whose accumulator carries what earlier faults have left
\* ------------------------------------------------------------------------
\* the flag tables an object of the protocol is constructed with: the
\* default, and the one with possibly high-weight corrections
CycleTables ==
    {"five_qubit_code_flag_min_wt_LUT", "five_qubit_code_flag_high_wt_LUT"}

InitCycle ==
    /\ samples_per_point = MaxSamples
    /\ comm = NoComm
    /\ error_model \in ErrorModels
    /\ syndrome_lookup_table \in CycleTables
    /\ p_phys = [r \in RateIdx |-> 0]
    /\ driver = "none" /\ num_cores = 1 /\ my_rank = 0
    /\ pauli_accumulator \in MeasureAccumulators
    /\ syndrome_ex_status = "IDLE"
    /\ current_syndrome_n_flag = PyNone
    /\ syndrome_n_flag_1st_subround = PyNone
    /\ syndrome_2nd_subround = PyNone
    /\ logical_error_counts = [r \in RateIdx |-> PyNone]
    /\ batch_size = 0 /\ j = 0 /\ i = 0 /\ source = 0
    /\ outbox = <<>>
    /\ results_per_batch_per_p_phys = <<>>
    /\ complete_results = <<>>
    /\ failure = "none"
    /\ faults = 0 /\ gate_faults = 0 /\ ops = <<>> /\ status_log = <<>> /\ meas_log = <<>>
    /\ ngates = 0 /\ resynced = clear_pauli_accumulator
    /\ called = "__init__" /\ entry = Snapshot /\ round_start = Snapshot
    /\ worker = FreshWorker([r \in RateIdx |-> PyNone], 0, 0, TRUE, TRUE)
    /\ test_config = NoTestConfig
    /\ ncalls = 0
    /\ call_args = NoCall /\ meas_outcome = -1 /\ replay_outcome = -1
    /\ replay_accumulator = clear_pauli_accumulator
    /\ pc = "api"

\* syndrome_extraction() with the defaults test_config=None, p_err=0
CallSyndromeExtractionDefaults ==
    /\ MayCall
    /\ \E r \in syndrome_extraction(ApiSelf, NoTestConfig, 0, error_model) :
          Direct("syndrome_extraction", r)

NextCycle ==
    \/ CallSyndromeExtractionDefaults
    \/ CallSyndromeDecoding

SpecCycle == InitCycle /\ [][NextCycle]_vars

\* the data qubits that carry an error in acc
ErrorSupport(acc) ==
    {q \in 0..(num_data_qubits - 1) : acc[q] = 1 \/ acc[q + num_all_qubits] = 1}

NoErrorOnData(acc) == ErrorSupport(acc) = {}

\* the two calls made so far are syndrome_extraction, then syndrome_decoding,
\* and the extraction was entered with a single-qubit Pauli on the data
\* qubits and ancilla and flag error-free
SingleErrorCycle ==
    /\ ncalls = 2 /\ Returned("syndrome_decoding") /\ meas_log # <<>>
    /\ faults = 0
    /\ Cardinality(ErrorSupport(round_start.acc)) = 1
    /\ AncillaClean(round_start.acc) /\ FlagClean(round_start.acc)

\* C31: with no fault and error-free ancilla and flag, for every
\* single-qubit Pauli error (X, Y or Z on one of the 5 data qubits) at
\* entry, syndrome_extraction followed by syndrome_decoding returns the
\* data-qubit accumulator to all-zero
C31_SingleErrorCorrected ==
    SingleErrorCycle => NoErrorOnData(pauli_accumulator)

\* C31 witness: a Y on data qubit 3 was found by the first generator,
\* remeasured as 1 1 1 0, and removed with the minimum-weight table
C31_Witness ==
    /\ SingleErrorCycle
    /\ syndrome_lookup_table = "five_qubit_code_flag_min_wt_LUT"
    /\ round_start.acc = Acc(<<2, 2 + num_all_qubits>>)
    /\ entry.first = PyStr("[[1 0] [None None] [None None] [None None]]")
    /\ entry.second = PyStr("[1 1 1 0]")
    /\ NoErrorOnData(pauli_accumulator)

\* ------------------------------------------------------------------------
\* logical_error_tracking on its own, called on an object whose accumulator
\* carries what the faults of the round have left
\* ------------------------------------------------------------------------
InitTrack ==
    /\ samples_per_point = MaxSamples
    /\ comm = NoComm
    /\ error_model \in ErrorModels
    /\ syndrome_lookup_table \in CycleTables
    /\ p_phys = [r \in RateIdx |-> 0]
    /\ driver = "none" /\ num_cores = 1 /\ my_rank = 0
    /\ pauli_accumulator \in MeasureAccumulators
    /\ syndrome_ex_status = "IDLE"
    /\ current_syndrome_n_flag = PyNone
    /\ syndrome_n_flag_1st_subround = PyNone
    /\ syndrome_2nd_subround = PyNone
    /\ logical_error_counts = [r \in RateIdx |-> PyInt(0)]
    /\ batch_size = 0 /\ j = 0 /\ i = 0 /\ source = 0
    /\ outbox = <<>>
    /\ results_per_batch_per_p_phys = <<>>
    /\ complete_results = <<>>
    /\ failure = "none"
    /\ faults = 0 /\ gate_faults = 0 /\ ops = <<>> /\ status_log = <<>> /\ meas_log = <<>>
    /\ ngates = 0 /\ resynced = clear_pauli_accumulator
    /\ called = "__init__" /\ entry = Snapshot /\ round_start = Snapshot
    /\ worker = FreshWorker([r \in RateIdx |-> PyNone], 0, 0, TRUE, TRUE)
    /\ test_config = NoTestConfig
    /\ ncalls = 0
    /\ call_args = NoCall /\ meas_outcome = -1 /\ replay_outcome = -1
    /\ replay_accumulator = clear_pauli_accumulator
    /\ pc = "api"

CallLogicalErrorTracking ==
    /\ MayCall
    /\ \E r \in logical_error_tracking(ApiSelf, j, error_model, Table(syndrome_lookup_table)) :
          Direct("logical_error_tracking", r)

NextTrack == CallLogicalErrorTracking

SpecTrack == InitTrack /\ [][NextTrack]_vars

ZeroSyndrome(acc) == \A g \in 1..4 : SyndromeBit(acc, g) = 0

\* C32 as stated: whenever logical_error_tracking evaluates the commutation
\* with the logical operators, the data-qubit accumulator commutes with the
\* four stabilizer generators, so that a correctable residual error is never
\* counted as a logical error because the resynchronization left it there
C32_VerdictInCodespace ==
    Returned("logical_error_tracking") => ZeroSyndrome(resynced)

\* when ancilla and flag are error-free as logical_error_tracking is
\* entered, the commutation is evaluated on an accumulator of zero syndrome
C32_CodespaceFromCleanProbes ==
    (Returned("logical_error_tracking") /\ AncillaClean(entry.acc) /\ FlagClean(entry.acc)) =>
        ZeroSyndrome(resynced)

\* the object as it was when the last call was made, its accumulator
\* replaced by acc
EntrySelf(acc) ==
    [Self EXCEPT !.acc = acc, !.status = entry.status, !.current = entry.current,
                 !.first = entry.first, !.second = entry.second, !.counts = entry.counts,
                 !.nf = entry.nf, !.gate_faults = entry.gate_faults,
                 !.failure = "none", !.ops = <<>>]

\* the accumulators with the data-qubit bits of acc and what a fault of the
\* last reset_ancilla (an X on the ancilla) or of the last reset_flag (a Z on
\* the flag qubit) leaves beside them
ResetLeftovers(acc) ==
    {[acc EXCEPT ![anc_qubits[0]] = ax, ![anc_qubits[0] + num_all_qubits] = 0,
                 ![flag_qubits[0]] = 0, ![flag_qubits[0] + num_all_qubits] = fz]
        : ax \in {0, 1}, fz \in {0, 1}}

\* C33: the verdict of a round is a function of the data-qubit part of the
\* accumulator at the start of the resynchronization: two states that agree
\* on the data-qubit bits and differ in the ancilla or flag bits the last
\* reset of the noisy extraction left yield the same resynchronization
\* records and the same verdict
C33_VerdictOfDataOnly ==
    (Returned("logical_error_tracking") /\ entry.acc \in ResetLeftovers(entry.acc)) =>
        \A other \in ResetLeftovers(entry.acc) :
            \A r \in logical_error_tracking(EntrySelf(other), j, error_model,
                                            Table(syndrome_lookup_table)) :
                /\ r.first = syndrome_n_flag_1st_subround
                /\ r.second = syndrome_2nd_subround
                /\ r.counts = logical_error_counts

\* ------------------------------------------------------------------------
\* two_qubit_gate_depol_error on its own, the second draw on a grid that
\* holds the bounds of the 15 intervals
\* ------------------------------------------------------------------------
\* the draws <<u, dec>> of two_qubit_gate_depol_error, the second one as the
\* numerator of dec / DrawGrid
DepolDraws(nf, p_err) ==
    {<<1, 0>>} \cup (IF MayFire(nf, p_err) THEN {<<0, dec>> : dec \in SecondDraws} ELSE {})

EngineDepol ==
    /\ MayCallEngine
    /\ \E q1 \in EngineQubits, q2 \in EngineQubits, p \in Rates :
          /\ q1 # q2
          /\ \E d \in DepolDraws(faults, p) :
                EngineReturns("two_qubit_gate_depol_error", q1, q2, p, p, d[1], d[2],
                    two_qubit_gate_depol_error(pauli_accumulator, q1, q2,
                                               d[1], DepolBranch(d[2]), p), -1,
                    two_qubit_gate_depol_error(replay_accumulator, q1, q2, ReplayU(d[1], p),
                        DepolBranch(ReplayDec(d[1], d[2], p, DrawGrid - 1)), p), -1)

NextDepol == EngineDepol

SpecDepol == InitEngine /\ [][NextDepol]_vars

\* the last call was two_qubit_gate_depol_error and its fault fired
DepolFired ==
    /\ called = "two_qubit_gate_depol_error"
    /\ call_args.u = 0 /\ call_args.p_err > 0

\* the two-qubit Paulis other than the identity, as pairs of Pauli indices
NonIdentityPairs == {pr \in (0..3) \X (0..3) : pr # <<0, 0>>}

\* accumulator a with Pauli pr[1] on q1 and Pauli pr[2] on q2 XORed onto it
WithPauliPair(a, pr, q1, q2) ==
    [n \in AccIdx |->
        IF n = q1 THEN (a[n] + Bool(pr[1] \in {1, 2})) % 2
        ELSE IF n = q1 + N THEN (a[n] + Bool(pr[1] \in {2, 3})) % 2
        ELSE IF n = q2 THEN (a[n] + Bool(pr[2] \in {1, 2})) % 2
        ELSE IF n = q2 + N THEN (a[n] + Bool(pr[2] \in {2, 3})) % 2
        ELSE a[n]]

\* what the fault of the last call makes of its accumulator when the second
\* draw is dec / DrawGrid
DepolImage(dec) ==
    two_qubit_gate_depol_error(entry.acc, call_args.qubit_idx1, call_args.qubit_idx2,
                               0, DepolBranch(dec), call_args.p_err)

\* the interval of width 1/15 that dec / DrawGrid lies in
IntervalOf(dec) == (dec * 15) \div DrawGrid

\* C34: when a two-qubit gate fault fires, exactly one of the 15
\* non-identity two-qubit Paulis is XORed onto the two operand qubits; the
\* 15 equal-width intervals of the second draw map one-to-one onto the 15
\* Paulis, every draw in [0,1) selects one, and the identity is never
\* chosen.
C34_FifteenPaulis ==
    DepolFired =>
        /\ Cardinality({pr \in NonIdentityPairs :
              pauli_accumulator = WithPauliPair(entry.acc, pr, call_args.qubit_idx1,
                                                call_args.qubit_idx2)}) = 1
        /\ pauli_accumulator # entry.acc
        /\ \A dec \in SecondDraws :
              /\ DepolBranch(dec) # -1
              /\ (DepolImage(dec) = pauli_accumulator) <=> (IntervalOf(dec) = IntervalOf(call_args.dec))
        /\ {DepolImage(dec) : dec \in SecondDraws}
              = {WithPauliPair(entry.acc, pr, call_args.qubit_idx1, call_args.qubit_idx2)
                    : pr \in NonIdentityPairs}

\* C34 witness: the second draw in the last interval, on the bound 14/15,
\* puts Z on both operands of an accumulator that carried an X on the first
C34_Witness ==
    /\ DepolFired
    /\ call_args.dec * 15 = 14 * DrawGrid
    /\ entry.acc = Acc(<<call_args.qubit_idx1>>)
    /\ pauli_accumulator = Acc(<<call_args.qubit_idx1, call_args.qubit_idx1 + N,
                                 call_args.qubit_idx2 + N>>)

\* ------------------------------------------------------------------------
\* Locality and algebra of the gates
\* ------------------------------------------------------------------------
\* the bits of the operands of the last engine call
OperandBits ==
    {call_args.qubit_idx1, call_args.qubit_idx1 + N}
        \cup (IF called = "h" THEN {}
              ELSE {call_args.qubit_idx2, call_args.qubit_idx2 + N})

\* C35: every gate (h, cnot, xnot, ynot, cz), the fault it injects
\* included, changes only the X and Z bits of its own operand qubit(s); the
\* bits of all other qubits are unchanged.
C35_GatesAreLocal ==
    GateCalled =>
        \A n \in AccIdx \ OperandBits : pauli_accumulator[n] = entry.acc[n]

\* C35 witness: a ynot whose fault fires changes its operands while a third
\* qubit carries an error that stays
C35_Witness ==
    /\ called = "ynot" /\ FaultFired
    /\ pauli_accumulator # entry.acc
    /\ \E n \in AccIdx \ OperandBits : entry.acc[n] = 1 /\ pauli_accumulator[n] = 1

\* the accumulators linearity is tried with: one bit of any qubit, a Y on
\* one of the caller's qubits, and an X and a Z on all of them
LinearityProbes ==
    OtherAccumulators
        \cup {Acc(<<q, q + N>>) : q \in EngineQubits}
        \cup {Acc(<<data_qubits[0], anc_qubits[0], flag_qubits[0]>>),
              Acc(<<data_qubits[0] + N, anc_qubits[0] + N, flag_qubits[0] + N>>)}

\* C37: with no fault, each of h, cnot, xnot, ynot and cz is an involution
\* on the accumulator (the same gate applied twice on the same operands
\* restores it) and is linear over XOR
\* (gate(a xor b) = gate(a) xor gate(b)).
C37_GatesInvolutiveLinear ==
    (GateCalled /\ ~FaultFired) =>
        /\ pauli_accumulator = GateImage(entry.acc)
        /\ GateImage(pauli_accumulator) = entry.acc
        /\ \A b \in LinearityProbes :
              GateImage(logical_xor(entry.acc, b))
                  = logical_xor(pauli_accumulator, GateImage(b))

\* C37 witness: a ynot without fault that changed an accumulator carrying a
\* Z on the oplus end and an X on the y end, after another gate
C37_Witness ==
    /\ called = "ynot" /\ ~FaultFired /\ ncalls = 2
    /\ entry.acc[call_args.qubit_idx1 + N] = 1
    /\ entry.acc[call_args.qubit_idx2] = 1
    /\ pauli_accumulator # entry.acc
    /\ GateImage(pauli_accumulator) = entry.acc
    /\ ops[1][1] \in {"h", "cnot", "xnot", "cz"}

\* ------------------------------------------------------------------------
\* What extraction and decoding may do to the accumulator
\* ------------------------------------------------------------------------
\* the bits of the ancilla and of the flag qubit
ProbeBits(acc) ==
    <<acc[anc_qubits[0]], acc[anc_qubits[0] + num_all_qubits],
      acc[flag_qubits[0]], acc[flag_qubits[0] + num_all_qubits]>>

\* the last call returned normally and no fault fired in it
FaultFree(method) == Returned(method) /\ faults = entry.nf

\* C36: during syndrome extraction and decoding the accumulator stays a 0/1
\* vector of length 2N, and the only operations that discard a qubit's two
\* bits regardless of their value are that qubit's own preparation or reset;
\* they are applied to the ancilla and the flag only, so that data-qubit
\* bits change only by XOR with propagated errors, faults and corrections:
\* init_state leaves the data-qubit bits as they were and the ancilla and
\* flag with nothing but their preparation fault; an extraction in which no
\* fault fires, entered with ancilla and flag error-free, returns the
\* data-qubit bits it found; syndrome_decoding changes no ancilla or flag bit
\* and XORs a correction of the table, or nothing, onto the data-qubit bits.
C36_OnlyProbesArePrepared ==
    /\ pauli_accumulator \in [AccIdx -> {0, 1}]
    /\ Returned("init_state") =>
          /\ DataBits(pauli_accumulator) = DataBits(entry.acc)
          /\ pauli_accumulator[anc_qubits[0] + num_all_qubits] = 0
          /\ pauli_accumulator[flag_qubits[0]] = 0
          /\ faults = entry.nf => (AncillaClean(pauli_accumulator) /\ FlagClean(pauli_accumulator))
    /\ ((FaultFree("syndrome_extraction") \/ FaultFree("measure_full_syndrome_without_flags"))
           /\ AncillaClean(entry.acc) /\ FlagClean(entry.acc)) =>
          DataBits(pauli_accumulator) = DataBits(entry.acc)
    /\ Returned("syndrome_decoding") =>
          /\ ProbeBits(pauli_accumulator) = ProbeBits(entry.acc)
          /\ IF DecodingHit
             THEN pauli_accumulator =
                     logical_xor(entry.acc,
                         ExtendCorrection(Table(syndrome_lookup_table)[entry.first.str][entry.second.str]))
             ELSE pauli_accumulator = entry.acc

\* C36 witness: an extraction without fault that found an error on a data
\* qubit and returned it, the ancilla and the flag reset
C36_Witness ==
    /\ FaultFree("syndrome_extraction")
    /\ AncillaClean(entry.acc) /\ FlagClean(entry.acc)
    /\ DataBits(entry.acc) # DataBits(clear_pauli_accumulator)
    /\ DataBits(pauli_accumulator) = DataBits(entry.acc)
    /\ AncillaClean(pauli_accumulator) /\ FlagClean(pauli_accumulator)

\* ------------------------------------------------------------------------
\* p_phys_sweep_simulation_mpi run by all the ranks of the communicator
\* together.  The sampling loop of a rate is one step of a rank, its result
\* any dict the loop can produce; comm.send either returns at once, the
\* message buffered, or blocks until rank 0 has received the message.
\* ------------------------------------------------------------------------
RanksOf(cores) == 0..(cores - 1)

\* every rank about to enter p_phys_sweep_simulation_mpi, nothing sent
World(cores) ==
    [rank |-> [k \in RanksOf(cores) |->
                  [pc |-> "start", j |-> 0, batch_size |-> 0, results |-> <<>>]],
     queue |-> [k \in 1..(cores - 1) |-> <<>>]]

InitMpi ==
    /\ samples_per_point = MaxSamples
    /\ error_model \in ErrorModels
    /\ syndrome_lookup_table = "five_qubit_code_flag_min_wt_LUT"
    /\ p_phys \in [RateIdx -> Rates]
    /\ driver = "p_phys_sweep_simulation_mpi"
    /\ num_cores \in 1..MaxCores
    /\ my_rank = 0
    /\ comm = World(num_cores)
    /\ pauli_accumulator = clear_pauli_accumulator
    /\ syndrome_ex_status = "IDLE"
    /\ current_syndrome_n_flag = PyNone
    /\ syndrome_n_flag_1st_subround = PyNone
    /\ syndrome_2nd_subround = PyNone
    /\ logical_error_counts = [r \in RateIdx |-> PyNone]
    /\ batch_size = 0 /\ j = 0 /\ i = 0 /\ source = 0
    /\ outbox = <<>>
    /\ results_per_batch_per_p_phys = <<>>
    /\ complete_results = <<>>
    /\ failure = "none"
    /\ faults = 0 /\ gate_faults = 0 /\ ops = <<>> /\ status_log = <<>> /\ meas_log = <<>>
    /\ ngates = 0 /\ resynced = clear_pauli_accumulator
    /\ called = "__init__" /\ entry = Snapshot /\ round_start = Snapshot
    /\ worker = FreshWorker([r \in RateIdx |-> PyNone], 0, 0, TRUE, TRUE)
    /\ test_config = NoTestConfig
    /\ ncalls = 0
    /\ call_args = NoCall /\ meas_outcome = -1 /\ replay_outcome = -1
    /\ replay_accumulator = clear_pauli_accumulator
    /\ pc = "mpi"

\* what a step of the communicator leaves alone
MpiStep ==
    UNCHANGED <<p_phys, samples_per_point, error_model, syndrome_lookup_table,
                driver, num_cores, my_rank, object, batch_size, j, i, pc, outbox,
                called, entry, test_config, ncalls, round_start, worker, engine>>

Ranks == RanksOf(num_cores)

\* batch_size = samples_per_point // num_cores, one more below the
\* remainder; rank 0 starts with an empty dict
MpiStart ==
    /\ \E k \in Ranks :
          /\ comm.rank[k].pc = "start"
          /\ comm' = [comm EXCEPT !.rank[k].pc = "rate", !.rank[k].j = 0,
                                  !.rank[k].batch_size =
                                      BatchOf(samples_per_point, num_cores, k)]
    /\ MpiStep
    /\ UNCHANGED <<source, results_per_batch_per_p_phys, complete_results>>

\* one pass of for j in range(len(p_phys)) up to local_result_dict: the
\* rounds of the batch, and rank 0 stores its own result
MpiSweepRate ==
    /\ \E k \in Ranks :
          /\ comm.rank[k].pc = "rate" /\ comm.rank[k].j < NumRates
          /\ \E result \in Sent(k, comm.rank[k].j) :
                IF k > 0
                THEN /\ comm' = [comm EXCEPT !.rank[k].pc = "send",
                                             !.rank[k].results = Append(@, result)]
                     /\ UNCHANGED results_per_batch_per_p_phys
                ELSE /\ comm' = [comm EXCEPT !.rank[k].j = @ + 1,
                                             !.rank[k].results = Append(@, result)]
                     /\ results_per_batch_per_p_phys' =
                           (ResultKey(k, comm.rank[k].j) :> result)
                               @@ results_per_batch_per_p_phys
    /\ MpiStep
    /\ UNCHANGED <<source, complete_results>>

\* Mutation of Post: the message overtakes those of the same sender
PostInFront(queue, msg) == <<msg>> \o queue

\* comm.send(local_result_dict, dest=0, tag=1000+my_rank): messages of one
\* sender with one tag are received in the order they were sent
Post(queue, msg) == Append(queue, msg)

\* comm.send on a rank above 0: it returns, or blocks until the message is
\* received
MpiSend ==
    /\ \E k \in Ranks \ {0} :
          /\ comm.rank[k].pc = "send"
          /\ \E buffered \in BOOLEAN :
                comm' = [comm EXCEPT
                            !.queue[k] = Post(@, comm.rank[k].results[comm.rank[k].j + 1]),
                            !.rank[k].pc = IF buffered THEN "rate" ELSE "blocked",
                            !.rank[k].j = IF buffered THEN @ + 1 ELSE @]
    /\ MpiStep
    /\ UNCHANGED <<source, results_per_batch_per_p_phys, complete_results>>

\* the loop over the rates is over: rank 0 goes on to
\* for k in range(1, num_cores): for j in range(len(p_phys)), the others
\* return
MpiFinish ==
    /\ \E k \in Ranks :
          /\ comm.rank[k].pc = "rate" /\ comm.rank[k].j = NumRates
          /\ IF k = 0
             THEN /\ comm' = [comm EXCEPT !.rank[k].pc = "gather", !.rank[k].j = 0]
                  /\ source' = 1
             ELSE /\ comm' = [comm EXCEPT !.rank[k].pc = "done"]
                  /\ UNCHANGED source
    /\ MpiStep
    /\ UNCHANGED <<results_per_batch_per_p_phys, complete_results>>

\* the k and j of the receive after that of (k, j)
NextRecv(k, jj) == IF jj + 1 < NumRates THEN <<k, jj + 1>> ELSE <<k + 1, 0>>

\* Mutation of SendReturns: a send that blocked never returns
SendReturnsNever(proc, queue) == FALSE

\* the receive of the head of queue lets its sender proc return from
\* comm.send: the sender waits in the send of this very message
SendReturns(proc, queue) == proc.pc = "blocked" /\ Len(queue) = 1

\* results_per_batch_per_p_phys[...] = comm.recv(source=k, tag=1000+k) on
\* rank 0; a sender blocked in the send of this message returns from it
MpiRecv ==
    /\ comm.rank[0].pc = "gather" /\ source < num_cores
    /\ comm.queue[source] # <<>>
    /\ results_per_batch_per_p_phys' =
          (ResultKey(source, comm.rank[0].j) :> Head(comm.queue[source]))
              @@ results_per_batch_per_p_phys
    /\ LET released == SendReturns(comm.rank[source], comm.queue[source])
       IN  comm' = [comm EXCEPT
                       !.queue[source] = Tail(@),
                       !.rank[0].j = NextRecv(source, comm.rank[0].j)[2],
                       !.rank[source].pc = IF released THEN "rate" ELSE @,
                       !.rank[source].j = IF released THEN @ + 1 ELSE @]
    /\ source' = NextRecv(source, comm.rank[0].j)[1]
    /\ MpiStep
    /\ UNCHANGED complete_results

\* every message is in: rank 0 computes complete_results and returns
MpiGather ==
    /\ comm.rank[0].pc = "gather" /\ source >= num_cores
    /\ complete_results' = AddResults(("total_samples" :> 0), results_per_batch_per_p_phys,
                                      InsertionOrder(num_cores))
    /\ comm' = [comm EXCEPT !.rank[0].pc = "done"]
    /\ MpiStep
    /\ UNCHANGED <<source, results_per_batch_per_p_phys>>

NextMpi ==
    \/ MpiStart
    \/ MpiSweepRate
    \/ MpiSend
    \/ MpiFinish
    \/ MpiRecv
    \/ MpiGather

SpecMpi == InitMpi /\ [][NextMpi]_vars

\* every rank gets to run
SpecMpiLive == SpecMpi /\ WF_vars(NextMpi)

\* every rank has returned from p_phys_sweep_simulation_mpi
MpiDone == \A k \in Ranks : comm.rank[k].pc = "done"

\* no message is left unreceived
AllReceived == \A k \in Ranks \ {0} : comm.queue[k] = <<>>

\* C38: if every worker's sampling loop terminates,
\* p_phys_sweep_simulation_mpi terminates on every rank without deadlock,
\* whether sends are buffered or block until the matching receive is posted:
\* every message sent is eventually received and the coordinator completes
\* the gather (W = 1, where no message is exchanged, and workers whose batch
\* size is 0 included).
C38_MpiTerminates ==
    <>[](/\ MpiDone
         /\ AllReceived
         /\ DOMAIN results_per_batch_per_p_phys
               = {ResultKey(k, jj) : k \in Ranks, jj \in RateIdx}
         /\ "total_samples" \in DOMAIN complete_results)

\* C38 witness: three ranks have returned, the last with a batch of 0, and
\* the totals count every round of the sweep
C38_Witness ==
    /\ MpiDone /\ num_cores = MaxCores
    /\ comm.rank[MaxCores - 1].batch_size = 0
    /\ complete_results["total_samples"] = NumRates * samples_per_point

\* C39: with per-sender message order preserved, the message rank 0 stores
\* under the key of (rank k, rate index j) is worker k's result for rate
\* p_phys[j] and carries rank field k, for every interleaving of the workers
\* and whatever order they finish in; no message is stored under another
\* worker's or another rate's key.
C39_StoredUnderOwnKey ==
    pc = "mpi" =>
        /\ DOMAIN results_per_batch_per_p_phys
              \subseteq {ResultKey(k, jj) : k \in Ranks, jj \in RateIdx}
        /\ \A k \in Ranks, jj \in RateIdx :
              ResultKey(k, jj) \in DOMAIN results_per_batch_per_p_phys =>
                  /\ jj < Len(comm.rank[k].results)
                  /\ results_per_batch_per_p_phys[ResultKey(k, jj)] = comm.rank[k].results[jj + 1]
                  /\ results_per_batch_per_p_phys[ResultKey(k, jj)].rank = k
                  /\ results_per_batch_per_p_phys[ResultKey(k, jj)].p_phys = p_phys[jj]

\* C39 witness: rank 2 finished before rank 1 had sent anything, both its
\* messages waiting, and rank 0 has stored the two results of rank 1, which
\* differ, and the first of rank 2
C39_Witness ==
    /\ pc = "mpi" /\ num_cores = 3
    /\ ResultKey(2, 0) \in DOMAIN results_per_batch_per_p_phys
    /\ comm.queue[2] # <<>>
    /\ results_per_batch_per_p_phys[ResultKey(1, 0)].logical_error_counts
          # results_per_batch_per_p_phys[ResultKey(1, 1)].logical_error_counts

\* ------------------------------------------------------------------------
\* The start of a rate
\* ------------------------------------------------------------------------
\* the first round of rate j is about to start, or is in progress
FirstRoundAhead == pc = "round" /\ i = 0 /\ j < NumRates
InFirstRound == pc \in {"extract", "decode", "track", "cleanup"} /\ i = 0

\* C40: at the first round of every rate the accumulator is all-zero and
\* the logical-error count of that rate is 0: no residual error and no count
\* carries over from the previous rate of the sweep, in the single-process
\* and in the distributed driver.
C40_RatesStartFresh ==
    /\ FirstRoundAhead =>
          /\ pauli_accumulator = clear_pauli_accumulator
          /\ logical_error_counts[j] = PyInt(0)
    /\ InFirstRound =>
          /\ round_start.acc = clear_pauli_accumulator
          /\ round_start.counts[j] = PyInt(0)

\* C40 witness: the distributed driver starts its second rate with nothing
\* on the accumulator, the last cleanup of the first rate having found a
\* residual error on it
C40_Witness ==
    /\ FirstRoundAhead /\ j = 1 /\ called = "driver"
    /\ driver = "p_phys_sweep_simulation_mpi"
    /\ entry.acc # clear_pauli_accumulator
    /\ pauli_accumulator = clear_pauli_accumulator
    /\ logical_error_counts[j] = PyInt(0)

====
